---------------------------- MODULE Spec2Model ----------------------------
(***************************************************************************)
(* Model of the ratio computation engine of the financial-report           *)
(* repository: src/app/report-extraction/index_calcuration.py.             *)
(*                                                                         *)
(* Python values are tagged records:                                       *)
(*   None            [t |-> "none"]                                        *)
(*   a number        [t |-> "num", n |-> numerator, d |-> denominator]     *)
(*   a dict          [t |-> "dict", m |-> function from keys to values]    *)
(*   a list          [t |-> "list", s |-> sequence of values]              *)
(*   a string        [t |-> "str", v |-> the string]                       *)
(*   a raised error  [t |-> "raise", e |-> name of the exception]          *)
(* Numbers are exact rationals in lowest terms (the code computes with     *)
(* Python ints and IEEE doubles; the model keeps the exact quotient, and   *)
(* round() is round-half-to-even on it, which is what Python's round does  *)
(* on every double that is an exact tie).  A quotient that lies exactly    *)
(* between two hundredths without being representable in binary, such as   *)
(* 0.005, is rounded by Python to the side its double falls on, and here   *)
(* to the even side: the properties on rounded values below accept both.   *)
(*                                                                         *)
(* The JSON keys of the source are Japanese; the model spells them in      *)
(* ASCII (the key table is in the comments of the accessors below).        *)
(***************************************************************************)
EXTENDS Integers, Sequences, FiniteSets, TLC

VARIABLES pipeline, extraction, csv, fs_map, all_results, pc, k, i, results

vars == <<pipeline, extraction, csv, fs_map, all_results, pc, k, i, results>>

(***************************************************************************)
(* Bounds of the model.                                                    *)
(***************************************************************************)
\* amounts of the statements range over -MaxVal..MaxVal
MaxVal == 2
\* a company has at most MaxYears statement-years
MaxYears == 2
\* a run computes at most MaxCompanies companies
MaxCompanies == 3
MaxSeries == 3

(***************************************************************************)
(* Python values.                                                          *)
(***************************************************************************)
None == [t |-> "none"]

Abs(x) == IF x < 0 THEN -x ELSE x

RECURSIVE Gcd(_, _)
Gcd(a, b) == IF b = 0 THEN a ELSE Gcd(b, a % b)

\* the rational n/d (d # 0) in lowest terms, with a positive denominator
Num(n, d) ==
    LET g == Gcd(Abs(n), Abs(d))
        s == IF d < 0 THEN -1 ELSE 1
    IN  [t |-> "num", n |-> (s * n) \div g, d |-> Abs(d) \div g]

Int2Num(x) == [t |-> "num", n |-> x, d |-> 1]

Dict(f) == [t |-> "dict", m |-> f]
EmptyDict == Dict(<<>>)
List(s) == [t |-> "list", s |-> s]
Str(v) == [t |-> "str", v |-> v]
Raise(e) == [t |-> "raise", e |-> e]

IsNone(x) == x.t = "none"
IsNum(x) == x.t = "num"
IsDict(x) == x.t = "dict"
IsRaise(x) == x.t = "raise"

\* Python truthiness: None, 0, {}, [] and "" are falsy
Truthy(x) ==
    CASE x.t = "none" -> FALSE
      [] x.t = "num" -> x.n # 0
      [] x.t = "dict" -> DOMAIN x.m # {}
      [] x.t = "list" -> x.s # <<>>
      [] x.t = "str" -> x.v # ""
      [] OTHER -> TRUE

\* d.get(key): None when the key is missing; AttributeError on a non-dict
PyGet(x, key) ==
    CASE x.t = "raise" -> x
      [] x.t = "dict" -> IF key \in DOMAIN x.m THEN x.m[key] ELSE None
      [] OTHER -> Raise("AttributeError")

\* d.get(key, default)
PyGetDefault(x, key, default) ==
    CASE x.t = "raise" -> x
      [] x.t = "dict" -> IF key \in DOMAIN x.m THEN x.m[key] ELSE default
      [] OTHER -> Raise("AttributeError")

\* the value itself where the code writes (x or {})
OrEmpty_identity(x) == x

\* (x or {})
OrEmpty(x) == IF IsRaise(x) \/ Truthy(x) THEN x ELSE EmptyDict

\* the exception a Python expression raises first, if one of the values it
\* reads is a raised error; result otherwise
Eval(reads, result) ==
    IF \E j \in DOMAIN reads : IsRaise(reads[j])
    THEN reads[CHOOSE j \in DOMAIN reads :
                 IsRaise(reads[j]) /\ \A h \in 1..(j - 1) : ~IsRaise(reads[h])]
    ELSE result

\* a dict literal {key: value, ...}: an exception raised by one of the value
\* expressions leaves the literal
DictLiteral(rec) ==
    IF \E key \in DOMAIN rec : IsRaise(rec[key])
    THEN rec[CHOOSE key \in DOMAIN rec : IsRaise(rec[key])]
    ELSE Dict(rec)

(***************************************************************************)
(* Python arithmetic on numbers.                                           *)
(***************************************************************************)
PyAdd(a, b) == Num(a.n * b.d + b.n * a.d, a.d * b.d)
PySub(a, b) == Num(a.n * b.d - b.n * a.d, a.d * b.d)
PyMul(a, b) == Num(a.n * b.n, a.d * b.d)
\* a / b raises ZeroDivisionError on b == 0
PyDiv(a, b) == IF b.n = 0 THEN Raise("ZeroDivisionError") ELSE Num(a.n * b.d, a.d * b.n)
PyAbs(a) == [t |-> "num", n |-> Abs(a.n), d |-> a.d]

\* round(x, 2): the nearest multiple of 1/100, ties to the even one
PyRound2(x) ==
    LET s == x.n * 100
        q == s \div x.d
        r == s % x.d
        up == (2 * r > x.d) \/ (2 * r = x.d /\ q % 2 = 1)
    IN  Num(IF up THEN q + 1 ELSE q, 100)

\* _safe_div without the test of b against 0
_safe_div_unguarded(a, b) ==
    Eval(<<a, b>>, IF IsNone(a) \/ IsNone(b) THEN None ELSE PyDiv(a, b))

(***************************************************************************)
(* Arithmetic primitives of the engine.                                    *)
(***************************************************************************)
_safe_div(a, b) ==
    Eval(<<a, b>>,
         IF IsNone(a) \/ IsNone(b) \/ b.n = 0 THEN None ELSE PyDiv(a, b))

\* _safe_sub handing on the minuend when the subtrahend is absent
_safe_sub_keeps_minuend(a, b) ==
    Eval(<<a, b>>, IF IsNone(a) THEN None ELSE IF IsNone(b) THEN a ELSE PySub(a, b))

\* _safe_sub reading an absent operand as 0
_safe_sub_absent_as_zero(a, b) ==
    Eval(<<a, b>>,
         PySub(IF IsNone(a) THEN Int2Num(0) ELSE a, IF IsNone(b) THEN Int2Num(0) ELSE b))

_safe_sub(a, b) ==
    Eval(<<a, b>>, IF IsNone(a) \/ IsNone(b) THEN None ELSE PySub(a, b))

RECURSIVE PySum(_)
PySum(nums) ==
    IF nums = <<>> THEN Int2Num(0) ELSE PyAdd(Head(nums), PySum(Tail(nums)))

\* _safe_add answering 0 when every value is absent
_safe_add_zero_when_empty(values) ==
    Eval(values, PySum(SelectSeq(values, LAMBDA v : ~IsNone(v))))

\* _safe_add answering absent as soon as one of the values is absent
_safe_add_strict(values) ==
    Eval(values,
         IF \E j \in DOMAIN values : IsNone(values[j]) THEN None ELSE PySum(values))

\* values is the tuple of the arguments
_safe_add(values) ==
    LET nums == SelectSeq(values, LAMBDA v : ~IsNone(v))
    IN  Eval(values, IF nums # <<>> THEN PySum(nums) ELSE None)

\* _avg halving also a single balance: the absent one counts as 0
_avg_halves_single(val_curr, val_prev) ==
    Eval(<<val_curr, val_prev>>,
         IF IsNone(val_curr) /\ IsNone(val_prev) THEN None
         ELSE PyDiv(PyAdd(IF IsNone(val_curr) THEN Int2Num(0) ELSE val_curr,
                          IF IsNone(val_prev) THEN Int2Num(0) ELSE val_prev),
                    Int2Num(2)))

\* _avg answering absent unless both values are there
_avg_strict(val_curr, val_prev) ==
    Eval(<<val_curr, val_prev>>,
         IF IsNone(val_curr) \/ IsNone(val_prev) THEN None
         ELSE PyDiv(PyAdd(val_curr, val_prev), Int2Num(2)))

_avg(val_curr, val_prev) ==
    Eval(<<val_curr, val_prev>>,
         IF IsNone(val_curr) THEN val_prev
         ELSE IF IsNone(val_prev) THEN val_curr
         ELSE PyDiv(PyAdd(val_curr, val_prev), Int2Num(2)))

\* _pct answering an absent ratio with 0
_pct_absent_as_zero(value) ==
    Eval(<<value>>,
         IF IsNone(value) THEN Int2Num(0) ELSE PyRound2(PyMul(value, Int2Num(100))))

_pct(value) ==
    Eval(<<value>>,
         IF IsNone(value) THEN None ELSE PyRound2(PyMul(value, Int2Num(100))))

_round_val(value) ==
    Eval(<<value>>, IF IsNone(value) THEN None ELSE PyRound2(value))

(***************************************************************************)
(* Field accessors.  Keys of the source and their spelling in the model:   *)
(*   損益計算書 PL, 貸借対照表 BS, キャッシュ・フロー計算書 CF,            *)
(*   合計 total, 内訳 breakdown,                                           *)
(*   売上高 revenue, 売上原価 cogs, 売上総利益 gross,                      *)
(*   販売費及び一般管理費 sga, 販売費及び一般管理費_減価償却費 sga_dep,    *)
(*   販売費及び一般管理費_人件費 sga_personnel, 営業利益 op_income,        *)
(*   経常利益 ord_income, 当期純利益 net_income,                           *)
(*   資産 assets, 総資産 total_assets, 流動資産 current_assets,            *)
(*   流動資産_現金及び預金 ca_cash, 流動資産_受取手形及び売掛金 ca_ar,     *)
(*   流動資産_完成工事未収入金 ca_constr_ar, 流動資産_未成工事支出金       *)
(*   ca_wip, 流動資産_商品及び製品 ca_inventory,                           *)
(*   負債・純資産 liab_equity, 負債 liabilities, 流動負債                  *)
(*   current_liabilities, 固定負債 fixed_liabilities, 純資産 equity,       *)
(*   流動負債_短期借入金 cl_short_debt, 流動負債_1年内返済予定長期借入金   *)
(*   cl_short_lt_debt, 流動負債_工事未払金 cl_constr_ap,                   *)
(*   流動負債_未成工事受入金 cl_adv_received, 流動負債_支払手形及び買掛金  *)
(*   cl_trade_ap, 固定負債_長期借入金 fl_long_debt,                        *)
(*   営業活動によるキャッシュ・フロー op_cf, 投資活動による… inv_cf,       *)
(*   現金及び現金同等物期末残高 end_cash,                                  *)
(*   企業情報 info, 財務データ fin, コード code, 指標 indices.             *)
(***************************************************************************)
_get_pl(year_data) == PyGetDefault(year_data, "PL", EmptyDict)
_get_bs(year_data) == PyGetDefault(year_data, "BS", EmptyDict)
_get_cf(year_data) == PyGetDefault(year_data, "CF", EmptyDict)

_revenue(pl) == PyGet(OrEmpty(PyGet(pl, "revenue")), "total")
_cogs(pl) == PyGet(OrEmpty(PyGet(pl, "cogs")), "total")
_gross(pl) == PyGet(OrEmpty(PyGet(pl, "gross")), "total")
_sga(pl) == PyGet(OrEmpty(PyGet(pl, "sga")), "total")
_sga_breakdown(pl, key) ==
    PyGet(OrEmpty(PyGet(OrEmpty(PyGet(pl, "sga")), "breakdown")), key)

_total_assets(bs) == PyGet(OrEmpty(PyGet(bs, "assets")), "total_assets")
_current_assets(bs) ==
    PyGet(OrEmpty(PyGet(OrEmpty(PyGet(bs, "assets")), "current_assets")), "total")
_current_assets_breakdown(bs, key) ==
    PyGet(OrEmpty(PyGet(OrEmpty(PyGet(OrEmpty(PyGet(bs, "assets")),
          "current_assets")), "breakdown")), key)

\* liab = (bs.get("負債・純資産") or {}).get("負債") or {}
Liab(bs) == OrEmpty(PyGet(OrEmpty(PyGet(bs, "liab_equity")), "liabilities"))

_current_liabilities(bs) ==
    PyGet(OrEmpty(PyGet(OrEmpty(PyGet(Liab(bs), "breakdown")),
          "current_liabilities")), "total")
_current_liabilities_breakdown(bs, key) ==
    PyGet(OrEmpty(PyGet(OrEmpty(PyGet(OrEmpty(PyGet(Liab(bs), "breakdown")),
          "current_liabilities")), "breakdown")), key)
_fixed_liabilities_breakdown(bs, key) ==
    PyGet(OrEmpty(PyGet(OrEmpty(PyGet(OrEmpty(PyGet(Liab(bs), "breakdown")),
          "fixed_liabilities")), "breakdown")), key)
_equity(bs) ==
    PyGet(OrEmpty(PyGet(OrEmpty(PyGet(bs, "liab_equity")), "equity")), "total")

(***************************************************************************)
(* The seven indicator categories.  Names of the indicators:               *)
(*   売上総利益率 gross_margin, 原価率 cost_ratio, 販管費率 sga_ratio,     *)
(*   営業利益率 op_margin, 経常利益率 ord_margin, 純利益率 net_margin,     *)
(*   売上高成長率 revenue_growth, 営業利益成長率 op_growth,                *)
(*   経常利益成長率 ord_growth, 当期純利益成長率 net_growth,               *)
(*   人件費率 personnel_ratio, 減価償却費率 dep_ratio,                     *)
(*   付加価値額 value_added, 総資産回転率 asset_turnover,                  *)
(*   流動比率 current_ratio, 当座比率 quick_ratio, 自己資本比率            *)
(*   equity_ratio, D/Eレシオ de_ratio, 営業CFマージン op_cf_margin,        *)
(*   フリーキャッシュフロー fcf, 営業CF÷EBITDA op_cf_to_ebitda,            *)
(*   現金増減額 cash_delta, 工事運転資本 construction_wc,                  *)
(*   ネット運転資本（簡易） net_wc, 売上債権回転期間（日） ar_days,        *)
(*   仕入債務回転期間（日） ap_days.                                       *)
(***************************************************************************)
calc_profitability(pl) ==
    LET revenue == _revenue(pl)
        cogs == _cogs(pl)
        gross == _gross(pl)
        sga == _sga(pl)
        op_income == PyGet(pl, "op_income")
        ord_income == PyGet(pl, "ord_income")
        net_income == PyGet(pl, "net_income")
        dep == _sga_breakdown(pl, "sga_dep")
    IN  Eval(<<revenue, cogs, gross, sga, op_income, ord_income, net_income, dep>>,
          DictLiteral([gross_margin |-> _pct(_safe_div(gross, revenue)),
           cost_ratio |-> _pct(_safe_div(cogs, revenue)),
           sga_ratio |-> _pct(_safe_div(sga, revenue)),
           op_margin |-> _pct(_safe_div(op_income, revenue)),
           ord_margin |-> _pct(_safe_div(ord_income, revenue)),
           net_margin |-> _pct(_safe_div(net_income, revenue)),
           EBITDA |-> _safe_add(<<op_income, dep>>)]))

\* the growth of a pair divided by prev itself, not by its absolute value
GrowthOf_signed_denominator(curr, prev) ==
    _pct(_safe_div(_safe_sub(curr, prev), IF Truthy(prev) THEN prev ELSE None))

\* one (curr, prev) pair of calc_growth:
\* _pct(_safe_div(_safe_sub(curr, prev), abs(prev) if prev else None))
GrowthOf(curr, prev) ==
    _pct(_safe_div(_safe_sub(curr, prev),
                   IF Truthy(prev) THEN PyAbs(prev) ELSE None))

\* calc_growth answering a missing previous year with a mapping of absent
\* values where the code answers None
calc_growth_all_absent(pl_curr, pl_prev) ==
    IF IsNone(pl_prev)
    THEN Dict([revenue_growth |-> None, op_growth |-> None,
               ord_growth |-> None, net_growth |-> None])
    ELSE Eval(<<_revenue(pl_curr), _revenue(pl_prev)>>,
           DictLiteral([revenue_growth |-> GrowthOf(_revenue(pl_curr), _revenue(pl_prev)),
             op_growth |-> GrowthOf(PyGet(pl_curr, "op_income"), PyGet(pl_prev, "op_income")),
             ord_growth |-> GrowthOf(PyGet(pl_curr, "ord_income"), PyGet(pl_prev, "ord_income")),
             net_growth |-> GrowthOf(PyGet(pl_curr, "net_income"), PyGet(pl_prev, "net_income"))]))

calc_growth(pl_curr, pl_prev) ==
    IF IsNone(pl_prev) THEN None
    ELSE
    LET rc == _revenue(pl_curr)
        rp == _revenue(pl_prev)
        oc == PyGet(pl_curr, "op_income")
        op == PyGet(pl_prev, "op_income")
        dc == PyGet(pl_curr, "ord_income")
        dp == PyGet(pl_prev, "ord_income")
        nc == PyGet(pl_curr, "net_income")
        np == PyGet(pl_prev, "net_income")
    IN  Eval(<<rc, rp, oc, op, dc, dp, nc, np>>,
          DictLiteral([revenue_growth |-> GrowthOf(rc, rp),
           op_growth |-> GrowthOf(oc, op),
           ord_growth |-> GrowthOf(dc, dp),
           net_growth |-> GrowthOf(nc, np)]))

\* calc_cost_structure with the value added resolved only when the revenue
\* is there to divide by
calc_cost_structure_needs_revenue(pl) ==
    LET revenue == _revenue(pl)
        gross == _gross(pl)
        personnel == _sga_breakdown(pl, "sga_personnel")
        dep == _sga_breakdown(pl, "sga_dep")
    IN  Eval(<<revenue, gross, personnel, dep>>,
          DictLiteral([personnel_ratio |-> _pct(_safe_div(personnel, revenue)),
           dep_ratio |-> _pct(_safe_div(dep, revenue)),
           value_added |-> IF IsNone(revenue) \/ revenue.n = 0 THEN None
                           ELSE _safe_sub(gross, personnel)]))

calc_cost_structure(pl) ==
    LET revenue == _revenue(pl)
        gross == _gross(pl)
        personnel == _sga_breakdown(pl, "sga_personnel")
        dep == _sga_breakdown(pl, "sga_dep")
    IN  Eval(<<revenue, gross, personnel, dep>>,
          DictLiteral([personnel_ratio |-> _pct(_safe_div(personnel, revenue)),
           dep_ratio |-> _pct(_safe_div(dep, revenue)),
           value_added |-> _safe_sub(gross, personnel)]))

calc_efficiency(pl, bs_curr, bs_prev) ==
    LET revenue == _revenue(pl)
        net_income == PyGet(pl, "net_income")
        ta_curr == _total_assets(bs_curr)
        ta_prev == IF Truthy(bs_prev) THEN _total_assets(bs_prev) ELSE None
        avg_ta == _avg(ta_curr, ta_prev)
        eq_curr == _equity(bs_curr)
        eq_prev == IF Truthy(bs_prev) THEN _equity(bs_prev) ELSE None
        avg_eq == _avg(eq_curr, eq_prev)
    IN  Eval(<<revenue, net_income, ta_curr, ta_prev, eq_curr, eq_prev>>,
          DictLiteral([asset_turnover |-> _round_val(_safe_div(revenue, avg_ta)),
           ROA |-> _pct(_safe_div(net_income, avg_ta)),
           ROE |-> _pct(_safe_div(net_income, avg_eq))]))

\* calc_safety with the inventories counted among the quick assets
calc_safety_quick_with_inventory(bs) ==
    LET ca == _current_assets(bs)
        cl == _current_liabilities(bs)
        ta == _total_assets(bs)
        eq == _equity(bs)
        cash == _current_assets_breakdown(bs, "ca_cash")
        ar == _current_assets_breakdown(bs, "ca_ar")
        construction_ar == _current_assets_breakdown(bs, "ca_constr_ar")
        inventory == _current_assets_breakdown(bs, "ca_inventory")
        quick_assets == _safe_add(<<cash, ar, construction_ar, inventory>>)
        short_debt == _current_liabilities_breakdown(bs, "cl_short_debt")
        short_lt_debt == _current_liabilities_breakdown(bs, "cl_short_lt_debt")
        long_debt == _fixed_liabilities_breakdown(bs, "fl_long_debt")
        interest_bearing == _safe_add(<<short_debt, short_lt_debt, long_debt>>)
    IN  Eval(<<ca, cl, ta, eq, cash, ar, construction_ar,
               short_debt, short_lt_debt, long_debt>>,
          DictLiteral([current_ratio |-> _pct(_safe_div(ca, cl)),
           quick_ratio |-> _pct(_safe_div(quick_assets, cl)),
           equity_ratio |-> _pct(_safe_div(eq, ta)),
           de_ratio |-> _round_val(_safe_div(interest_bearing, eq))]))

\* calc_safety with the trade payables counted among the interest-bearing debt
calc_safety_debt_with_payables(bs) ==
    LET ca == _current_assets(bs)
        cl == _current_liabilities(bs)
        ta == _total_assets(bs)
        eq == _equity(bs)
        cash == _current_assets_breakdown(bs, "ca_cash")
        ar == _current_assets_breakdown(bs, "ca_ar")
        construction_ar == _current_assets_breakdown(bs, "ca_constr_ar")
        quick_assets == _safe_add(<<cash, ar, construction_ar>>)
        short_debt == _current_liabilities_breakdown(bs, "cl_short_debt")
        short_lt_debt == _current_liabilities_breakdown(bs, "cl_short_lt_debt")
        long_debt == _fixed_liabilities_breakdown(bs, "fl_long_debt")
        trade_ap == _current_liabilities_breakdown(bs, "cl_trade_ap")
        interest_bearing == _safe_add(<<short_debt, short_lt_debt, long_debt, trade_ap>>)
    IN  Eval(<<ca, cl, ta, eq, cash, ar, construction_ar,
               short_debt, short_lt_debt, long_debt>>,
          DictLiteral([current_ratio |-> _pct(_safe_div(ca, cl)),
           quick_ratio |-> _pct(_safe_div(quick_assets, cl)),
           equity_ratio |-> _pct(_safe_div(eq, ta)),
           de_ratio |-> _round_val(_safe_div(interest_bearing, eq))]))

calc_safety(bs) ==
    LET ca == _current_assets(bs)
        cl == _current_liabilities(bs)
        ta == _total_assets(bs)
        eq == _equity(bs)
        cash == _current_assets_breakdown(bs, "ca_cash")
        ar == _current_assets_breakdown(bs, "ca_ar")
        construction_ar == _current_assets_breakdown(bs, "ca_constr_ar")
        quick_assets == _safe_add(<<cash, ar, construction_ar>>)
        short_debt == _current_liabilities_breakdown(bs, "cl_short_debt")
        short_lt_debt == _current_liabilities_breakdown(bs, "cl_short_lt_debt")
        long_debt == _fixed_liabilities_breakdown(bs, "fl_long_debt")
        interest_bearing == _safe_add(<<short_debt, short_lt_debt, long_debt>>)
    IN  Eval(<<ca, cl, ta, eq, cash, ar, construction_ar,
               short_debt, short_lt_debt, long_debt>>,
          DictLiteral([current_ratio |-> _pct(_safe_div(ca, cl)),
           quick_ratio |-> _pct(_safe_div(quick_assets, cl)),
           equity_ratio |-> _pct(_safe_div(eq, ta)),
           de_ratio |-> _round_val(_safe_div(interest_bearing, eq))]))

\* calc_cashflow dividing the operating CF by the operating income alone,
\* the depreciation left out of its EBITDA
calc_cashflow_without_depreciation(pl, cf, cf_prev) ==
    LET revenue == _revenue(pl)
        op_income == PyGet(pl, "op_income")
        dep == _sga_breakdown(pl, "sga_dep")
        ebitda == _safe_add(<<op_income>>)
        op_cf == PyGet(cf, "op_cf")
        inv_cf == PyGet(cf, "inv_cf")
        end_cash == PyGet(cf, "end_cash")
        begin_cash == IF Truthy(cf_prev) THEN PyGet(cf_prev, "end_cash") ELSE None
    IN  Eval(<<revenue, op_income, dep, op_cf, inv_cf, end_cash, begin_cash>>,
          DictLiteral([op_cf_margin |-> _pct(_safe_div(op_cf, revenue)),
           fcf |-> _safe_add(<<op_cf, inv_cf>>),
           op_cf_to_ebitda |-> _round_val(_safe_div(op_cf, ebitda)),
           cash_delta |-> _safe_sub(end_cash, begin_cash)]))

\* calc_cashflow with an absent opening balance read as 0 in the cash delta
calc_cashflow_delta_from_zero(pl, cf, cf_prev) ==
    LET revenue == _revenue(pl)
        op_income == PyGet(pl, "op_income")
        dep == _sga_breakdown(pl, "sga_dep")
        ebitda == _safe_add(<<op_income, dep>>)
        op_cf == PyGet(cf, "op_cf")
        inv_cf == PyGet(cf, "inv_cf")
        end_cash == PyGet(cf, "end_cash")
        begin_cash == IF Truthy(cf_prev) THEN PyGet(cf_prev, "end_cash") ELSE None
    IN  Eval(<<revenue, op_income, dep, op_cf, inv_cf, end_cash, begin_cash>>,
          DictLiteral([op_cf_margin |-> _pct(_safe_div(op_cf, revenue)),
           fcf |-> _safe_add(<<op_cf, inv_cf>>),
           op_cf_to_ebitda |-> _round_val(_safe_div(op_cf, ebitda)),
           cash_delta |-> _safe_sub(end_cash,
                                    IF IsNone(begin_cash) THEN Int2Num(0) ELSE begin_cash)]))

calc_cashflow(pl, cf, cf_prev) ==
    LET revenue == _revenue(pl)
        op_income == PyGet(pl, "op_income")
        dep == _sga_breakdown(pl, "sga_dep")
        ebitda == _safe_add(<<op_income, dep>>)
        op_cf == PyGet(cf, "op_cf")
        inv_cf == PyGet(cf, "inv_cf")
        end_cash == PyGet(cf, "end_cash")
        begin_cash == IF Truthy(cf_prev) THEN PyGet(cf_prev, "end_cash") ELSE None
    IN  Eval(<<revenue, op_income, dep, op_cf, inv_cf, end_cash, begin_cash>>,
          DictLiteral([op_cf_margin |-> _pct(_safe_div(op_cf, revenue)),
           fcf |-> _safe_add(<<op_cf, inv_cf>>),
           op_cf_to_ebitda |-> _round_val(_safe_div(op_cf, ebitda)),
           cash_delta |-> _safe_sub(end_cash, begin_cash)]))

\* the turnover days with the quotient rounded before it is multiplied by 365
TurnoverDays_rounded_quotient(avg, denom) ==
    LET q == _round_val(_safe_div(avg, denom))
    IN  Eval(<<q>>, IF ~IsNone(q) THEN _round_val(PyMul(q, Int2Num(365))) ELSE None)

\* _round_val(_safe_div(avg, denom) * 365) if _safe_div(avg, denom) is not None
\* else None
TurnoverDays(avg, denom) ==
    LET q == _safe_div(avg, denom)
    IN  Eval(<<q>>, IF ~IsNone(q) THEN _round_val(PyMul(q, Int2Num(365))) ELSE None)

calc_construction(pl, bs_curr, bs_prev) ==
    LET constr_ar == _current_assets_breakdown(bs_curr, "ca_constr_ar")
        wip == _current_assets_breakdown(bs_curr, "ca_wip")
        constr_ap == _current_liabilities_breakdown(bs_curr, "cl_constr_ap")
        adv_received == _current_liabilities_breakdown(bs_curr, "cl_adv_received")
        construction_wc == _safe_sub(_safe_add(<<constr_ar, wip>>),
                                     _safe_add(<<constr_ap, adv_received>>))
        ca == _current_assets(bs_curr)
        cash == _current_assets_breakdown(bs_curr, "ca_cash")
        cl == _current_liabilities(bs_curr)
        short_debt == _current_liabilities_breakdown(bs_curr, "cl_short_debt")
        net_wc == _safe_sub(_safe_sub(ca, cash), _safe_sub(cl, short_debt))
        revenue == _revenue(pl)
        ar_c == _current_assets_breakdown(bs_curr, "ca_ar")
        ar_curr == _safe_add(<<ar_c, constr_ar>>)
        ar_p == IF Truthy(bs_prev)
                THEN _current_assets_breakdown(bs_prev, "ca_ar") ELSE None
        car_p == IF Truthy(bs_prev)
                 THEN _current_assets_breakdown(bs_prev, "ca_constr_ar") ELSE None
        ar_prev == IF Truthy(bs_prev) THEN _safe_add(<<ar_p, car_p>>) ELSE None
        avg_ar == _avg(ar_curr, ar_prev)
        cogs == _cogs(pl)
        ap_curr == constr_ap
        ap_prev == IF Truthy(bs_prev)
                   THEN _current_liabilities_breakdown(bs_prev, "cl_constr_ap")
                   ELSE None
        avg_ap == _avg(ap_curr, ap_prev)
    IN  Eval(<<constr_ar, wip, constr_ap, adv_received, ca, cash, cl, short_debt,
               revenue, ar_c, ar_p, car_p, cogs, ap_prev>>,
          DictLiteral([construction_wc |-> construction_wc,
           net_wc |-> net_wc,
           ar_days |-> TurnoverDays(avg_ar, revenue),
           ap_days |-> TurnoverDays(avg_ap, cogs)]))

\* prev_data looked up by the YEAR labels: the statement-year with the
\* latest label earlier than the current one's, wherever it is in the list
prev_data_by_label(fin_years, idx) ==
    LET label(j) == PyGet(fin_years[j], "YEAR")
        earlier == {j \in DOMAIN fin_years :
                       /\ IsNum(label(j)) /\ IsNum(label(idx))
                       /\ label(j).n < label(idx).n}
    IN  IF earlier = {} THEN None
        ELSE fin_years[CHOOSE j \in earlier : \A j2 \in earlier : label(j2).n <= label(j).n]

\* prev_data without the guard on the first year: the index before the first
\* one wraps around to the last statement-year of the series
prev_data_wraparound(fin_years, idx) ==
    IF idx > 1 THEN fin_years[idx - 1] ELSE fin_years[Len(fin_years)]

\* prev_data = fin_years[i - 1] if i > 0 else None   (idx = i + 1)
prev_data(fin_years, idx) ==
    IF idx > 1 THEN fin_years[idx - 1] ELSE None

(***************************************************************************)
(* calculate_indices: the body of one iteration of its loop, for the       *)
(* element at position idx of fin_years (positions count from 1 here, from *)
(* 0 in the source).                                                       *)
(***************************************************************************)
year_result(fin_years, idx) ==
    LET year_data == fin_years[idx]
        year == PyGet(year_data, "YEAR")
        pl == _get_pl(year_data)
        bs == _get_bs(year_data)
        cf == _get_cf(year_data)
        prev == prev_data(fin_years, idx)
        pl_prev == IF Truthy(prev) THEN _get_pl(prev) ELSE None
        bs_prev == IF Truthy(prev) THEN _get_bs(prev) ELSE None
        cf_prev == IF Truthy(prev) THEN _get_cf(prev) ELSE None
        profitability == calc_profitability(pl)
        growth == calc_growth(pl, pl_prev)
        cost_structure == calc_cost_structure(pl)
        efficiency == calc_efficiency(pl, bs, bs_prev)
        safety == calc_safety(bs)
        cashflow == calc_cashflow(pl, cf, cf_prev)
        construction == calc_construction(pl, bs, bs_prev)
    IN  Eval(<<year, pl, bs, cf>>,
          DictLiteral([YEAR |-> year,
                profitability |-> profitability,
                growth |-> growth,
                cost_structure |-> cost_structure,
                efficiency |-> efficiency,
                safety |-> safety,
                cashflow |-> cashflow,
                construction |-> construction]))

\* fin_years = company_data.get("財務データ", [])
FinYears(company_data) == PyGetDefault(company_data, "fin", List(<<>>))

\* the value returned with the panels appended to those of a company
\* computed before: a results list that outlives the call
Returned_with_history(company_data, res) ==
    Dict([info |-> PyGetDefault(company_data, "info", EmptyDict),
          indices |-> List((IF DOMAIN all_results = {} THEN <<>>
                            ELSE all_results[CHOOSE c \in DOMAIN all_results : TRUE].m.indices.s)
                           \o res)])

\* the value calculate_indices returns
Returned(company_data, res) ==
    Dict([info |-> PyGetDefault(company_data, "info", EmptyDict),
          indices |-> List(res)])

\* the list calculate_indices has built after the first idx iterations, or the
\* exception one of them raised
RECURSIVE LoopResults(_, _)
LoopResults(fin_years, idx) ==
    IF idx = 0 THEN List(<<>>)
    ELSE LET before == LoopResults(fin_years, idx - 1)
             yr == year_result(fin_years, idx)
         IN  IF IsRaise(before) THEN before
             ELSE IF IsRaise(yr) THEN yr
             ELSE List(Append(before.s, yr))

\* calculate_indices as a function of its argument: what it returns, or the
\* exception it raises
calculate_indices(company_data) ==
    LET fin_years == FinYears(company_data)
    IN  IF IsRaise(fin_years) THEN fin_years
        ELSE IF fin_years.t # "list" THEN Raise("TypeError")
        ELSE LET res == LoopResults(fin_years.s, Len(fin_years.s))
             IN  IF IsRaise(res) THEN res ELSE Returned(company_data, res.s)

(***************************************************************************)
(* Inputs.  A statement-year in the shape the loader writes                *)
(* (financial_statements_loader.py, load_financial_data), built from a     *)
(* YEAR label and an assignment L of a value to every line item.  Only the *)
(* shape is the loader's: index_calcuration.py reads the JSON file it is   *)
(* given, so a line item holds null or any amount, 0 included.  Amounts    *)
(* are integers of bounded size: the quotients of the engine are exact     *)
(* here, and the overflow of a float is out of reach.                      *)
(***************************************************************************)
LeafNames ==
    <<"revenue", "cogs", "gross", "sga", "sga_dep", "sga_personnel",
      "op_income", "ord_income", "net_income",
      "total_assets", "current_assets", "ca_cash", "ca_ar", "ca_constr_ar",
      "ca_wip", "ca_inventory", "current_liabilities", "cl_short_debt",
      "cl_short_lt_debt", "cl_trade_ap", "cl_constr_ap", "cl_adv_received",
      "fl_long_debt", "equity", "op_cf", "inv_cf", "end_cash">>

Leaves == {LeafNames[j] : j \in DOMAIN LeafNames}

Subtotal(total, detail) == Dict([total |-> total, breakdown |-> Dict(detail)])

StatementPL(L) ==
    Dict([revenue |-> Subtotal(L["revenue"], <<>>),
          cogs |-> Subtotal(L["cogs"], <<>>),
          gross |-> Subtotal(L["gross"], <<>>),
          sga |-> Subtotal(L["sga"],
                     [sga_personnel |-> L["sga_personnel"], sga_dep |-> L["sga_dep"]]),
          op_income |-> L["op_income"],
          ord_income |-> L["ord_income"],
          net_income |-> L["net_income"]])

StatementBS(L) ==
    Dict([assets |-> Dict(
            [current_assets |-> Subtotal(L["current_assets"],
                [ca_cash |-> L["ca_cash"], ca_ar |-> L["ca_ar"],
                 ca_constr_ar |-> L["ca_constr_ar"], ca_wip |-> L["ca_wip"],
                 ca_inventory |-> L["ca_inventory"]]),
             total_assets |-> L["total_assets"]]),
          liab_equity |-> Dict(
            [liabilities |-> Dict([breakdown |-> Dict(
                [current_liabilities |-> Subtotal(L["current_liabilities"],
                    [cl_short_debt |-> L["cl_short_debt"],
                     cl_short_lt_debt |-> L["cl_short_lt_debt"],
                     cl_trade_ap |-> L["cl_trade_ap"],
                     cl_constr_ap |-> L["cl_constr_ap"],
                     cl_adv_received |-> L["cl_adv_received"]]),
                 fixed_liabilities |-> Subtotal(None,
                    [fl_long_debt |-> L["fl_long_debt"]])])]),
             equity |-> Subtotal(L["equity"], <<>>)])])

StatementCF(L) ==
    Dict([op_cf |-> L["op_cf"], inv_cf |-> L["inv_cf"], end_cash |-> L["end_cash"]])

year_entry(label, L) ==
    Dict([YEAR |-> label, PL |-> StatementPL(L), BS |-> StatementBS(L), CF |-> StatementCF(L)])

\* every key path of a dict: the statements, groups, sub-groups and line items
RECURSIVE Paths(_)
Paths(x) ==
    IF ~IsDict(x) THEN {}
    ELSE UNION {{<<key>>} \cup {<<key>> \o p : p \in Paths(x.m[key])} : key \in DOMAIN x.m}

\* the dict x with the value at path replaced by v
RECURSIVE SetAt(_, _, _)
SetAt(x, path, v) ==
    IF Len(path) = 1 THEN Dict((path[1] :> v) @@ x.m)
    ELSE Dict((path[1] :> SetAt(x.m[path[1]], Tail(path), v)) @@ x.m)

\* the dict x with the key at path removed
RECURSIVE DropAt(_, _)
DropAt(x, path) ==
    IF Len(path) = 1 THEN Dict([key \in DOMAIN x.m \ {path[1]} |-> x.m[key]])
    ELSE Dict((path[1] :> DropAt(x.m[path[1]], Tail(path))) @@ x.m)

(***************************************************************************)
(* The families of inputs the model draws from.                            *)
(***************************************************************************)
\* what a line item can hold: null, or an amount
Values == {None} \cup {Int2Num(v) : v \in (-MaxVal)..MaxVal}

LeafIndex(leaf) == CHOOSE j \in DOMAIN LeafNames : LeafNames[j] = leaf

\* the fully reported statement-year of year y: every line item holds an
\* amount of its own, different from every other one's
BaseAmount(y, leaf) == Int2Num(7 * LeafIndex(leaf) + 3 * y + 1)

Profiles == {"empty", "full"}

BaseLeaf(profile, y, leaf) ==
    IF profile = "full" THEN BaseAmount(y, leaf) ELSE None

YearLabel(y) == Int2Num(2019 + y)

\* The operands of each formula of calc_*: "curr" is the last statement-year
\* of the series, "prev" the one before it.
Cells(which, leaves) == {<<which, leaf>> : leaf \in leaves}

FocusGroups ==
    { Cells("curr", {"revenue", "gross"}),
      Cells("curr", {"revenue", "cogs"}),
      Cells("curr", {"revenue", "sga"}),
      Cells("curr", {"revenue", "op_income"}),
      Cells("curr", {"revenue", "ord_income"}),
      Cells("curr", {"revenue", "net_income"}),
      Cells("curr", {"revenue", "sga_personnel"}),
      Cells("curr", {"revenue", "sga_dep"}),
      Cells("curr", {"revenue", "op_cf"}),
      Cells("curr", {"gross", "sga_personnel"}),
      Cells("curr", {"op_income", "sga_dep", "op_cf"}),
      Cells("curr", {"revenue"}) \cup Cells("prev", {"revenue"}),
      Cells("curr", {"op_income"}) \cup Cells("prev", {"op_income"}),
      Cells("curr", {"ord_income"}) \cup Cells("prev", {"ord_income"}),
      Cells("curr", {"net_income"}) \cup Cells("prev", {"net_income"}),
      Cells("curr", {"revenue", "total_assets"}) \cup Cells("prev", {"total_assets"}),
      Cells("curr", {"net_income", "total_assets"}) \cup Cells("prev", {"total_assets"}),
      Cells("curr", {"net_income", "equity"}) \cup Cells("prev", {"equity"}),
      Cells("curr", {"current_assets", "current_liabilities"}),
      Cells("curr", {"ca_cash", "ca_ar", "ca_constr_ar", "current_liabilities"}),
      Cells("curr", {"equity", "total_assets"}),
      Cells("curr", {"cl_short_debt", "cl_short_lt_debt", "fl_long_debt", "equity"}),
      Cells("curr", {"op_cf", "inv_cf"}),
      Cells("curr", {"end_cash"}) \cup Cells("prev", {"end_cash"}),
      Cells("curr", {"ca_constr_ar", "ca_wip", "cl_constr_ap", "cl_adv_received"}),
      Cells("curr", {"current_assets", "ca_cash", "current_liabilities", "cl_short_debt"}),
      Cells("curr", {"ca_ar", "ca_constr_ar", "revenue"})
          \cup Cells("prev", {"ca_ar", "ca_constr_ar"}),
      Cells("curr", {"cl_constr_ap", "cogs"}) \cup Cells("prev", {"cl_constr_ap"}) }

\* every line item alone, and every pair of operands of one formula
FocusSets ==
    {Cells("curr", {leaf}) : leaf \in Leaves}
    \cup {Cells("prev", {leaf}) : leaf \in Leaves}
    \cup UNION {{{c1, c2} : c1, c2 \in g} : g \in FocusGroups}

\* the series of n statement-years of a profile, with the cells of focus F
\* holding the values a assigns
FocusSeries(n, profile, F, a) ==
    [y \in 1..n |->
        year_entry(YearLabel(y),
            [leaf \in Leaves |->
                IF y = n /\ <<"curr", leaf>> \in F THEN a[<<"curr", leaf>>]
                ELSE IF y = n - 1 /\ <<"prev", leaf>> \in F THEN a[<<"prev", leaf>>]
                ELSE BaseLeaf(profile, y, leaf)])]

BaseSeries(n, profile) ==
    [y \in 1..n |-> year_entry(YearLabel(y), [leaf \in Leaves |-> BaseLeaf(profile, y, leaf)])]

CodeNames == <<"c1", "c2", "c3", "c4">>

Codes == {CodeNames[j] : j \in 1..MaxCompanies}

CompanyInfo(code) == Dict([code |-> Str(code)])

Company(code, series) == Dict([info |-> CompanyInfo(code), fin |-> List(series)])

\* the fs_map of one company
OneCompany(series) == <<[code |-> "c1", data |-> Company("c1", series)]>>

(***************************************************************************)
(* financial_statements_loader.py: from the rows of the CSV to the         *)
(* statement-years.  A row is a dict from column names to cells; a cell is *)
(* a string, or None where the line of the file is shorter than the        *)
(* header.  The columns are named as the keys they become:                 *)
(*   コード code, YEAR YEAR, 売上高 revenue, 固定負債 fixed_liabilities, and  *)
(* the line items of the key table above.  The columns no formula of the   *)
(* engine reads (売上高_完成工事高, 固定資産, 営業外収益, ...) are left out:  *)
(* the loader treats every statement column alike, through _get.  Of the   *)
(* company info the code and the head-office location are kept; the other  *)
(* fields are filled the same way, from the same row.                      *)
(***************************************************************************)
\* the characters of the texts a cell holds in the model
Chars(text) ==
    CASE text = "" -> <<>>
      [] text = "0" -> <<"0">>
      [] text = "00" -> <<"0", "0">>
      [] text = "-0" -> <<"-", "0">>
      [] text = "0.0" -> <<"0", ".", "0">>
      [] text = "-" -> <<"-">>
      [] text = "x" -> <<"x">>
      [] text = "1" -> <<"1">>
      [] text = "-2" -> <<"-", "2">>
      [] text = "1.5" -> <<"1", ".", "5">>
      [] text = "12" -> <<"1", "2">>
      [] text = "2020" -> <<"2", "0", "2", "0">>
      [] text = "2021" -> <<"2", "0", "2", "1">>

DigitChars == <<"0", "1", "2", "3", "4", "5", "6", "7", "8", "9">>

IsDigit(c) == \E j \in DOMAIN DigitChars : DigitChars[j] = c

DigitValue(c) == (CHOOSE j \in DOMAIN DigitChars : DigitChars[j] = c) - 1

AllDigits(s) == \A j \in DOMAIN s : IsDigit(s[j])

\* the number a sequence of digits denotes; 0 for the empty one
RECURSIVE DigitsValue(_)
DigitsValue(s) ==
    IF s = <<>> THEN 0
    ELSE DigitsValue(SubSeq(s, 1, Len(s) - 1)) * 10 + DigitValue(s[Len(s)])

RECURSIVE Pow10(_)
Pow10(e) == IF e = 0 THEN 1 ELSE 10 * Pow10(e - 1)

Unsigned(s) == IF s # <<>> /\ s[1] \in {"-", "+"} THEN Tail(s) ELSE s

SignOf(s) == IF s # <<>> /\ s[1] = "-" THEN -1 ELSE 1

\* int(value): an optional sign and at least one digit, ValueError otherwise
PyInt(s) ==
    IF Unsigned(s) # <<>> /\ AllDigits(Unsigned(s))
    THEN Int2Num(SignOf(s) * DigitsValue(Unsigned(s)))
    ELSE Raise("ValueError")

\* float(value): an optional sign, digits with at most one point among them
\* and at least one digit, ValueError otherwise
PyFloat(s) ==
    LET u == Unsigned(s)
        points == {j \in DOMAIN u : u[j] = "."}
        p == IF points = {} THEN Len(u) + 1 ELSE CHOOSE j \in points : TRUE
        whole == SubSeq(u, 1, p - 1)
        fraction == SubSeq(u, p + 1, Len(u))
    IN  IF /\ Cardinality(points) <= 1
           /\ AllDigits(whole) /\ AllDigits(fraction)
           /\ whole \o fraction # <<>>
        THEN Num(SignOf(s) * (DigitsValue(whole) * Pow10(Len(fraction))
                              + DigitsValue(fraction)),
                 Pow10(Len(fraction)))
        ELSE Raise("ValueError")

_parse_number(value) ==
    IF IsNone(value) \/ value = Str("") THEN None
    ELSE IF ~IsRaise(PyInt(Chars(value.v))) THEN PyInt(Chars(value.v))
    ELSE IF ~IsRaise(PyFloat(Chars(value.v))) THEN PyFloat(Chars(value.v))
    ELSE None

\* _get with the number 0 handed on as it is parsed
_get_keeps_zero(row, col) == _parse_number(PyGetDefault(row, col, Str("")))

_get(row, col) ==
    LET val == _parse_number(PyGetDefault(row, col, Str("")))
    IN  IF IsNum(val) /\ val.n = 0 THEN None ELSE val

\* detail_cols is the set of the columns of the breakdown
_build_subtotal(row, total_col, detail_cols) ==
    Dict([total |-> _get(row, total_col),
          breakdown |-> Dict([col \in detail_cols |-> _get(row, col)])])

_build_pl(row) ==
    Dict([revenue |-> _build_subtotal(row, "revenue", {}),
          cogs |-> _build_subtotal(row, "cogs", {}),
          gross |-> _build_subtotal(row, "gross", {}),
          sga |-> _build_subtotal(row, "sga", {"sga_personnel", "sga_dep"}),
          op_income |-> _get(row, "op_income"),
          ord_income |-> _get(row, "ord_income"),
          net_income |-> _get(row, "net_income")])

_build_bs(row) ==
    Dict([assets |-> Dict(
            [current_assets |-> _build_subtotal(row, "current_assets",
                {"ca_cash", "ca_ar", "ca_constr_ar", "ca_wip", "ca_inventory"}),
             total_assets |-> _get(row, "total_assets")]),
          liab_equity |-> Dict(
            [liabilities |-> Dict([breakdown |-> Dict(
                [current_liabilities |-> _build_subtotal(row, "current_liabilities",
                    {"cl_short_debt", "cl_short_lt_debt", "cl_trade_ap", "cl_constr_ap",
                     "cl_adv_received"}),
                 fixed_liabilities |-> _build_subtotal(row, "fixed_liabilities",
                    {"fl_long_debt"})])]),
             equity |-> _build_subtotal(row, "equity", {})])])

_build_cf(row) ==
    Dict([op_cf |-> _get(row, "op_cf"),
          inv_cf |-> _get(row, "inv_cf"),
          end_cash |-> _get(row, "end_cash")])

\* the decimal text of the integers a filter holds in the model
IntText(n) ==
    CASE n = 0 -> "0"
      [] n = 2020 -> "2020"
      [] n = 2021 -> "2021"

\* str(x) of a filter: a string as it is, an integer as its decimal text
PyStr(x) == IF x.t = "str" THEN x ELSE Str(IntText(x.n))

\* the filters of load_financial_data let the row through
Accepted(row, company_code, year) ==
    LET code == PyGetDefault(row, "code", Str(""))
        yr == PyGetDefault(row, "YEAR", Str(""))
    IN  /\ ~(Truthy(company_code) /\ code # PyStr(company_code))
        /\ ~(Truthy(year) /\ yr # PyStr(year))

\* x or None
OrNone(x) == IF Truthy(x) THEN x ELSE None

\* load_row with a row whose YEAR the company already has left out
load_row_skips_repeated_year(loaded, row) ==
    LET code == PyGetDefault(row, "code", Str(""))
        entry == Dict([YEAR |-> _parse_number(PyGetDefault(row, "YEAR", Str(""))),
                       PL |-> _build_pl(row),
                       BS |-> _build_bs(row),
                       CF |-> _build_cf(row)])
        known == {j \in DOMAIN loaded : loaded[j].code = code.v}
        fresh == [code |-> code.v,
                  data |-> Dict([info |-> Dict([code |-> OrNone(code),
                                                location |-> OrNone(PyGet(row, "location"))]),
                                 fin |-> List(<<>>)])]
        opened == IF known = {} THEN Append(loaded, fresh) ELSE loaded
    IN  [j \in DOMAIN opened |->
            IF opened[j].code = code.v
               /\ \A e \in DOMAIN opened[j].data.m.fin.s :
                     opened[j].data.m.fin.s[e].m.YEAR # entry.m.YEAR
            THEN [code |-> code.v,
                  data |-> Dict([info |-> opened[j].data.m.info,
                                 fin |-> List(Append(opened[j].data.m.fin.s, entry))])]
            ELSE opened[j]]

\* the body of for row in reader for a row the filters let through: results
\* is a sequence of [code, data] in the order the codes first appear (the
\* insertion order of the dict)
load_row(loaded, row) ==
    LET code == PyGetDefault(row, "code", Str(""))
        entry == Dict([YEAR |-> _parse_number(PyGetDefault(row, "YEAR", Str(""))),
                       PL |-> _build_pl(row),
                       BS |-> _build_bs(row),
                       CF |-> _build_cf(row)])
        known == {j \in DOMAIN loaded : loaded[j].code = code.v}
        fresh == [code |-> code.v,
                  data |-> Dict([info |-> Dict([code |-> OrNone(code),
                                                location |-> OrNone(PyGet(row, "location"))]),
                                 fin |-> List(<<>>)])]
        opened == IF known = {} THEN Append(loaded, fresh) ELSE loaded
    IN  [j \in DOMAIN opened |->
            IF opened[j].code = code.v
            THEN [code |-> code.v,
                  data |-> Dict([info |-> opened[j].data.m.info,
                                 fin |-> List(Append(opened[j].data.m.fin.s, entry))])]
            ELSE opened[j]]

\* results after the rows of the file up to row n
RECURSIVE LoadedRows(_, _, _, _)
LoadedRows(rows, n, company_code, year) ==
    IF n = 0 THEN <<>>
    ELSE LET before == LoadedRows(rows, n - 1, company_code, year)
         IN  IF ~Accepted(rows[n], company_code, year) THEN before
             ELSE load_row(before, rows[n])

\* company_code is a string and year an integer, or None
load_financial_data(rows, company_code, year) ==
    LoadedRows(rows, Len(rows), company_code, year)

\* the runs of index_calcuration.py and of the loader are no runs of
\* run_pipeline.py and process no PDF file
NoPipeline == [status |-> "none"]

NoExtraction == [status |-> "none"]

\* the runs that start from a financial_statements.json read no CSV
NoCsv == [rows |-> <<>>, company_code |-> None, year |-> None]

Started(m) ==
    /\ pipeline = NoPipeline
    /\ extraction = NoExtraction
    /\ csv = NoCsv
    /\ fs_map = m
    /\ all_results = <<>>
    /\ pc = "main"
    /\ k = 1
    /\ i = 0
    /\ results = <<>>

\* series whose statements are complete and whose line items vary
InitFocus ==
    \E n \in {1, 2}, profile \in Profiles, F \in FocusSets :
        \E a \in [F -> Values] :
            Started(OneCompany(FocusSeries(n, profile, F, a)))

\* series with one statement, group, sub-group or line item missing or null
InitSparse ==
    \E n \in 1..MaxYears, profile \in Profiles, y \in 1..MaxYears, null \in BOOLEAN :
        /\ y <= n
        /\ \E path \in Paths(BaseSeries(n, profile)[y]) :
              LET base == BaseSeries(n, profile)
                  yd == IF null THEN SetAt(base[y], path, None) ELSE DropAt(base[y], path)
              IN  Started(OneCompany([base EXCEPT ![y] = yd]))

\* series of any length, YEAR labels in any order, repeated or not; and
\* statement-years that are empty dicts
InitLabels ==
    \E n \in 0..MaxYears, profile \in Profiles :
        \E labels \in [1..n -> {YearLabel(1), YearLabel(2)}], empty \in SUBSET (1..n) :
            Started(OneCompany(
                [y \in 1..n |->
                    IF y \in empty THEN EmptyDict
                    ELSE SetAt(BaseSeries(n, profile)[y], <<"YEAR">>, labels[y])]))

\* a company record without its statement-year list, or without its info
InitCompany ==
    \E n \in 0..MaxYears, profile \in Profiles, key \in {"fin", "info"} :
        Started(<<[code |-> "c1",
                   data |-> DropAt(Company("c1", BaseSeries(n, profile)), <<key>>)]>>)

\* the line items whose value in one year the two companies of a pair
\* differ in: the denominators of the ratio indicators
PairFields ==
    {"revenue", "cogs", "current_liabilities", "total_assets", "equity",
     "op_income", "ord_income", "net_income"}

\* the series of a profile with one line item of year y holding v
SeriesWith(n, profile, y, leaf, v) ==
    [z \in 1..n |->
        year_entry(YearLabel(z),
            [l \in Leaves |-> IF z = y /\ l = leaf THEN v ELSE BaseLeaf(profile, z, l)])]

\* two companies whose series are equal in every field but one denominator
\* of one year: zero or absent for the first, an amount for the second
InitPair ==
    \E n \in 1..MaxYears, profile \in Profiles, y \in 1..MaxYears, leaf \in PairFields :
        \E degenerate \in {None, Int2Num(0)}, amount \in Values \ {None, Int2Num(0)} :
            /\ y <= n
            /\ Started(<<[code |-> "c1",
                          data |-> Company("c1", SeriesWith(n, profile, y, leaf, degenerate))],
                         [code |-> "c2",
                          data |-> Company("c2", SeriesWith(n, profile, y, leaf, amount))]>>)

\* the company data a batch draws from: the same company information with
\* a series of 0..MaxYears fully reported years, or one year of no amounts
BatchPool ==
    {Company("c1", BaseSeries(n, "full")) : n \in 0..MaxYears}
    \cup {Company("c1", BaseSeries(1, "empty"))}

\* several companies in any order of their codes, each with any data of the
\* pool, the same data for two of them included
InitBatch ==
    \E n \in 2..MaxCompanies :
        \E codes \in [1..n -> Codes], data \in [1..n -> BatchPool] :
            /\ \A a, b \in 1..n : a # b => codes[a] # codes[b]
            /\ Started([j \in 1..n |-> [code |-> codes[j], data |-> data[j]]])

\* the line items of the balance sheet
BalanceSheetLeaves ==
    {"total_assets", "current_assets", "ca_cash", "ca_ar", "ca_constr_ar", "ca_wip",
     "ca_inventory", "current_liabilities", "cl_short_debt", "cl_short_lt_debt",
     "cl_trade_ap", "cl_constr_ap", "cl_adv_received", "fl_long_debt", "equity"}

\* two companies whose series are equal in every field but one line item of
\* the balance sheet of one year, which holds any two different values
InitBalancePair ==
    \E n \in 1..MaxYears, profile \in Profiles, y \in 1..MaxYears, leaf \in BalanceSheetLeaves :
        \E v1, v2 \in Values :
            /\ y <= n
            /\ v1 # v2
            /\ Started(<<[code |-> "c1",
                          data |-> Company("c1", SeriesWith(n, profile, y, leaf, v1))],
                         [code |-> "c2",
                          data |-> Company("c2", SeriesWith(n, profile, y, leaf, v2))]>>)

\* the key path of a line item in a statement-year
LeafPath(leaf) ==
    CASE leaf \in {"revenue", "cogs", "gross", "sga"} -> <<"PL", leaf, "total">>
      [] leaf \in {"sga_dep", "sga_personnel"} -> <<"PL", "sga", "breakdown", leaf>>
      [] leaf \in {"op_income", "ord_income", "net_income"} -> <<"PL", leaf>>
      [] leaf = "total_assets" -> <<"BS", "assets", "total_assets">>
      [] leaf = "current_assets" -> <<"BS", "assets", "current_assets", "total">>
      [] leaf \in {"ca_cash", "ca_ar", "ca_constr_ar", "ca_wip", "ca_inventory"} ->
            <<"BS", "assets", "current_assets", "breakdown", leaf>>
      [] leaf = "current_liabilities" ->
            <<"BS", "liab_equity", "liabilities", "breakdown", "current_liabilities", "total">>
      [] leaf \in {"cl_short_debt", "cl_short_lt_debt", "cl_trade_ap", "cl_constr_ap",
                   "cl_adv_received"} ->
            <<"BS", "liab_equity", "liabilities", "breakdown", "current_liabilities",
              "breakdown", leaf>>
      [] leaf = "fl_long_debt" ->
            <<"BS", "liab_equity", "liabilities", "breakdown", "fixed_liabilities",
              "breakdown", leaf>>
      [] leaf = "equity" -> <<"BS", "liab_equity", "equity", "total">>
      [] leaf \in {"op_cf", "inv_cf", "end_cash"} -> <<"CF", leaf>>

\* the order of the YEAR labels along a series: ascending, descending, all
\* the same
LabelOrders == {[y \in 1..MaxSeries |-> YearLabel(y)],
                [y \in 1..MaxSeries |-> YearLabel(MaxSeries + 1 - y)],
                [y \in 1..MaxSeries |-> YearLabel(1)]}

\* line items read by the formulas that look at the previous year, and one
\* read by single-year formulas only
SeriesFields == {"revenue", "net_income", "total_assets", "end_cash", "ca_ar", "gross"}

\* what can change in element y of a series: the value of a line item, the
\* YEAR label, or the whole element, which becomes the empty record
SeriesChanges ==
    {[kind |-> "item", leaf |-> leaf, v |-> v] : leaf \in SeriesFields, v \in Values}
    \cup {[kind |-> "label", v |-> v] : v \in {None} \cup {YearLabel(y) : y \in 1..MaxSeries}}
    \cup {[kind |-> "element"]}

Changed(year_data, change) ==
    CASE change.kind = "item" -> SetAt(year_data, LeafPath(change.leaf), change.v)
      [] change.kind = "label" -> SetAt(year_data, <<"YEAR">>, change.v)
      [] change.kind = "element" -> EmptyDict

\* two companies with series of up to MaxSeries fully reported years, the
\* labels in any of the orders, possibly an empty record at position e; the
\* series of the second company is the one of the first with element y changed
InitSeriesPair ==
    \E n \in 1..MaxSeries, labels \in LabelOrders, e \in 0..MaxSeries, y \in 1..MaxSeries :
        \E change \in SeriesChanges :
            /\ y <= n /\ e <= n /\ y # e
            /\ LET series == [z \in 1..n |->
                                IF z = e THEN EmptyDict
                                ELSE SetAt(BaseSeries(n, "full")[z], <<"YEAR">>, labels[z])]
               IN  /\ Changed(series[y], change) # series[y]
                   /\ Started(<<[code |-> "c1", data |-> Company("c1", series)],
                                [code |-> "c2",
                                 data |-> Company("c2",
                                     [series EXCEPT ![y] = Changed(series[y], change)])]>>)

\* The rows of a file.  What a statement cell of a row can be: the column
\* missing from the row, None, or a text
NoColumn == [t |-> "nocolumn"]

CellTexts == {"", "0", "-0", "0.0", "x", "1", "-2", "1.5"}

CellVariants == {NoColumn, None} \cup {Str(text) : text \in CellTexts}

AmountTexts == <<"1", "12", "1.5", "-2", "2020">>

\* the reported amount of a line item in the row of year y
BaseText(y, leaf) == Str(AmountTexts[((LeafIndex(leaf) + 2 * y) % Len(AmountTexts)) + 1])

YearTexts == <<"2020", "2021", "2020">>

\* the columns whose cell varies: a total, items of a breakdown, plain fields
LoaderFocus ==
    {"revenue", "sga_dep", "op_income", "total_assets", "ca_inventory",
     "current_liabilities", "fl_long_debt", "equity", "end_cash"}

\* the row of a company for year y, with cell v in column focus
Row(code, y, focus, v) ==
    LET cells == [col \in Leaves \cup {"code", "YEAR"} |->
                    IF col = "code" THEN Str(code)
                    ELSE IF col = "YEAR" THEN Str(YearTexts[y])
                    ELSE IF col = focus THEN v
                    ELSE BaseText(y, col)]
    IN  Dict([col \in {c \in DOMAIN cells : cells[c] # NoColumn} |-> cells[col]])

\* a file of two years of two companies, year by year; the rows of the two
\* companies are alike but for the cell of one column in one year
InitLoader ==
    \E focus \in LoaderFocus, y \in 1..MaxYears, v1, v2 \in CellVariants :
        /\ pipeline = NoPipeline
        /\ extraction = NoExtraction
        /\ csv = [rows |-> [r \in 1..(2 * MaxYears) |->
                              LET yr == (r + 1) \div 2
                              IN  IF r % 2 = 1
                                  THEN Row("c1", yr, focus, IF yr = y THEN v1 ELSE BaseText(yr, focus))
                                  ELSE Row("c2", yr, focus, IF yr = y THEN v2 ELSE BaseText(yr, focus))],
                  company_code |-> None,
                  year |-> None]
        /\ fs_map = <<>>
        /\ all_results = <<>>
        /\ pc = "load"
        /\ k = 1
        /\ i = 0
        /\ results = <<>>

\* the location texts of the rows, by their position in the file
LocationTexts == <<"tokyo", "osaka", "nagoya", "kyoto">>

MaxRows == 3

\* row r of a file: every statement cell reported, with amounts of its own
FileRow(code, yeartext, r) ==
    Dict([col \in Leaves \cup {"code", "YEAR", "location"} |->
            IF col = "code" THEN Str(code)
            ELSE IF col = "YEAR" THEN Str(yeartext)
            ELSE IF col = "location" THEN Str(LocationTexts[r])
            ELSE BaseText(r, col)])

\* files of up to MaxRows rows of two companies in any order, the years
\* repeated or out of order, read with or without the filters
InitRows ==
    \E n \in 0..MaxRows :
        \E codes \in [1..n -> {"c1", "c2"}], years \in [1..n -> {"2020", "2021"}] :
            \E company_code \in {None, Str("c1")},
               year \in {None, Int2Num(0), Int2Num(2021)} :
                /\ pipeline = NoPipeline
                /\ extraction = NoExtraction
                /\ csv = [rows |-> [r \in 1..n |-> FileRow(codes[r], years[r], r)],
                          company_code |-> company_code,
                          year |-> year]
                /\ fs_map = <<>>
                /\ all_results = <<>>
                /\ pc = "load"
                /\ k = 1
                /\ i = 0
                /\ results = <<>>

Init == InitSparse \/ InitLabels \/ InitCompany

(***************************************************************************)
(* main (lines 326-335) and calculate_indices (lines 278-309).             *)
(***************************************************************************)
\* for code, company_data in fs_map.items(): the head of the loop and the
\* entry of calculate_indices
main_next ==
    /\ pc = "main"
    /\ k <= Len(fs_map)
    /\ LET company_data == fs_map[k].data
           name == PyGetDefault(PyGetDefault(company_data, "info", EmptyDict),
                                "code", Str(fs_map[k].code))
           fin_years == FinYears(company_data)
       IN  IF IsRaise(name) \/ fin_years.t # "list"
           THEN pc' = "raised" /\ UNCHANGED <<i, results>>
           ELSE pc' = "loop" /\ i' = 1 /\ results' = <<>>
    /\ UNCHANGED <<pipeline, extraction, csv, fs_map, all_results, k>>

\* loop_step with a statement-year skipped when its YEAR repeats the label of
\* the year before it (the years merged)
loop_step_merge_years ==
    /\ pc = "loop"
    /\ i <= Len(FinYears(fs_map[k].data).s)
    /\ LET fin_years == FinYears(fs_map[k].data).s
           yr == year_result(fin_years, i)
           repeated == i > 1 /\ PyGet(fin_years[i], "YEAR") = PyGet(fin_years[i - 1], "YEAR")
       IN  IF IsRaise(yr)
           THEN pc' = "raised" /\ UNCHANGED <<i, results>>
           ELSE /\ pc' = "loop"
                /\ i' = i + 1
                /\ results' = IF repeated THEN results ELSE Append(results, yr)
    /\ UNCHANGED <<pipeline, extraction, csv, fs_map, all_results, k>>

\* loop_step with the statement key of the element written back into it
\* (year_data.setdefault in place of year_data.get): the input is changed
loop_step_writes_statement_back ==
    /\ pc = "loop"
    /\ i <= Len(FinYears(fs_map[k].data).s)
    /\ LET fin_years == FinYears(fs_map[k].data).s
           yr == year_result(fin_years, i)
           filled == SetAt(fin_years[i], <<"PL">>, PyGetDefault(fin_years[i], "PL", EmptyDict))
       IN  IF IsRaise(yr)
           THEN pc' = "raised" /\ UNCHANGED <<i, results, fs_map>>
           ELSE /\ pc' = "loop" /\ i' = i + 1 /\ results' = Append(results, yr)
                /\ fs_map' = [fs_map EXCEPT ![k].data =
                                 SetAt(fs_map[k].data, <<"fin">>,
                                       List([fin_years EXCEPT ![i] = filled]))]
    /\ UNCHANGED <<pipeline, extraction, csv, all_results, k>>

\* one iteration of for i, year_data in enumerate(fin_years)
loop_step ==
    /\ pc = "loop"
    /\ i <= Len(FinYears(fs_map[k].data).s)
    /\ LET yr == year_result(FinYears(fs_map[k].data).s, i)
       IN  IF IsRaise(yr)
           THEN pc' = "raised" /\ UNCHANGED <<i, results>>
           ELSE pc' = "loop" /\ i' = i + 1 /\ results' = Append(results, yr)
    /\ UNCHANGED <<pipeline, extraction, csv, fs_map, all_results, k>>

\* calc_return with every code computed so far bound to the value just
\* returned: one result object shared by all the keys
calc_return_shared_object ==
    /\ pc = "loop"
    /\ i > Len(FinYears(fs_map[k].data).s)
    /\ all_results' = [c \in DOMAIN all_results \cup {fs_map[k].code} |->
                          Returned(fs_map[k].data, results)]
    /\ k' = k + 1
    /\ pc' = "main"
    /\ i' = 0
    /\ results' = <<>>
    /\ UNCHANGED <<pipeline, extraction, csv, fs_map>>

\* return of calculate_indices and all_results[code] = ...
calc_return ==
    /\ pc = "loop"
    /\ i > Len(FinYears(fs_map[k].data).s)
    /\ all_results' = (fs_map[k].code :> Returned(fs_map[k].data, results)) @@ all_results
    /\ k' = k + 1
    /\ pc' = "main"
    /\ i' = 0
    /\ results' = <<>>
    /\ UNCHANGED <<pipeline, extraction, csv, fs_map>>

\* the loop is over: all_results is written out
main_done ==
    /\ pc = "main"
    /\ k > Len(fs_map)
    /\ pc' = "done"
    /\ UNCHANGED <<pipeline, extraction, csv, fs_map, all_results, k, i, results>>

\* report-extraction/main.py writes what load_financial_data returns to the
\* file index_calcuration.py reads: json.dump and json.load keep the numbers,
\* the None and the order of the keys
main_load ==
    /\ pc = "load"
    /\ fs_map' = load_financial_data(csv.rows, csv.company_code, csv.year)
    /\ pc' = "main"
    /\ UNCHANGED <<pipeline, extraction, csv, all_results, k, i, results>>

Next == main_next \/ loop_step \/ calc_return \/ main_done

Spec == Init /\ [][Next]_vars

\* the same program on the series whose line items vary
SpecFormula == InitFocus /\ [][Next]_vars

\* the runs over two companies that differ in one denominator
SpecPair == InitPair /\ [][Next]_vars

\* the runs over several companies in any order
SpecBatch == InitBatch /\ [][Next]_vars

\* the runs of two companies that differ in one field of the balance sheet
SpecBalancePair == InitBalancePair /\ [][Next]_vars

\* the runs of two companies whose series differ in one element
SpecSeriesPair == InitSeriesPair /\ [][Next]_vars

NextLoader == main_load \/ main_next \/ loop_step \/ calc_return \/ main_done

\* the runs from the rows of a CSV file to the index panels
SpecLoader == InitLoader /\ [][NextLoader]_vars

\* the runs from files of several rows per company
SpecRows == InitRows /\ [][NextLoader]_vars

(***************************************************************************)
(* Reading the state: the input and the output of one company.             *)
(***************************************************************************)
\* the company data fs_map holds for a code
DataOf(code) == fs_map[CHOOSE j \in DOMAIN fs_map : fs_map[j].code = code].data

\* the statement-year list of a company: empty when the record has none
InputYears(code) ==
    IF "fin" \in DOMAIN DataOf(code).m THEN DataOf(code).m.fin.s ELSE <<>>

HasOutput(code) == code \in DOMAIN all_results

\* the panel list calculate_indices returned for a company
Panels(code) == all_results[code].m.indices.s

\* the YEAR label a statement-year carries, null when it carries none
LabelOf(year_data) ==
    IF "YEAR" \in DOMAIN year_data.m THEN year_data.m.YEAR ELSE None

CategoryNames ==
    {"profitability", "growth", "cost_structure", "efficiency", "safety",
     "cashflow", "construction"}

\* the fixed indicator names of each category
IndicatorNames(category) ==
    CASE category = "profitability" ->
            {"gross_margin", "cost_ratio", "sga_ratio", "op_margin", "ord_margin",
             "net_margin", "EBITDA"}
      [] category = "growth" ->
            {"revenue_growth", "op_growth", "ord_growth", "net_growth"}
      [] category = "cost_structure" ->
            {"personnel_ratio", "dep_ratio", "value_added"}
      [] category = "efficiency" -> {"asset_turnover", "ROA", "ROE"}
      [] category = "safety" ->
            {"current_ratio", "quick_ratio", "equity_ratio", "de_ratio"}
      [] category = "cashflow" ->
            {"op_cf_margin", "fcf", "op_cf_to_ebitda", "cash_delta"}
      [] category = "construction" ->
            {"construction_wc", "net_wc", "ar_days", "ap_days"}

\* a category of a panel is a mapping that holds every indicator name of it
IsFullCategory(panel, category) ==
    /\ IsDict(panel.m[category])
    /\ DOMAIN panel.m[category].m = IndicatorNames(category)

\* the value of an indicator of a panel; null when the category itself is null
Indicator(panel, category, name) ==
    IF IsDict(panel.m[category]) THEN panel.m[category].m[name] ELSE None

(***************************************************************************)
(* C1.  When calculate_indices returns, the panel list is as long as the   *)
(* input statement-year list and its i-th panel carries the YEAR label of  *)
(* the i-th statement-year: no year is reordered, merged or dropped, also  *)
(* when labels repeat or are out of chronological order.                   *)
(***************************************************************************)
C1_PanelsFollowInputYears ==
    \A code \in Codes :
        HasOutput(code) =>
            /\ Len(Panels(code)) = Len(InputYears(code))
            /\ \A j \in DOMAIN Panels(code) :
                  Panels(code)[j].m.YEAR = LabelOf(InputYears(code)[j])

\* a returned series of two years whose labels repeat
C1_Witness ==
    /\ HasOutput("c1")
    /\ Len(InputYears("c1")) = 2
    /\ Len(Panels("c1")) = 2
    /\ IsNum(Panels("c1")[1].m.YEAR)
    /\ Panels("c1")[1].m.YEAR = Panels("c1")[2].m.YEAR

(***************************************************************************)
(* C3.  As claimed: every panel maps each of the 7 category names to a     *)
(* mapping that contains all of that category's indicator names, the       *)
(* first-year panel included.                                              *)
(***************************************************************************)
C3_EveryCategoryIsAMapping ==
    \A code \in Codes :
        HasOutput(code) =>
            \A j \in DOMAIN Panels(code) :
                \A category \in CategoryNames : IsFullCategory(Panels(code)[j], category)

(***************************************************************************)
(* C3, amended.  Every panel maps YEAR and each of the 7 category names;   *)
(* the six categories other than growth are always mappings with all of    *)
(* their indicator names; the growth category is such a mapping when the   *)
(* panel has a previous statement-year that is not an empty record, and is *)
(* null otherwise (the first-year panel).                                  *)
(***************************************************************************)
C3_CategoriesExceptFirstYearGrowth ==
    \A code \in Codes :
        HasOutput(code) =>
            \A j \in DOMAIN Panels(code) :
                LET panel == Panels(code)[j]
                    has_prev == j > 1 /\ DOMAIN InputYears(code)[j - 1].m # {}
                IN  /\ DOMAIN panel.m = CategoryNames \cup {"YEAR"}
                    /\ \A category \in CategoryNames \ {"growth"} :
                          IsFullCategory(panel, category)
                    /\ IF has_prev THEN IsFullCategory(panel, "growth")
                       ELSE IsNone(panel.m.growth)

\* a returned series of two years: the first panel's growth is null, the
\* second one's a mapping that holds a number
C3_Witness ==
    /\ HasOutput("c1")
    /\ Len(Panels("c1")) = 2
    /\ IsNone(Panels("c1")[1].m.growth)
    /\ IsFullCategory(Panels("c1")[2], "growth")
    /\ IsNum(Panels("c1")[2].m.growth.m.revenue_growth)

(***************************************************************************)
(* C4.  As claimed: for a series whose statement-years are arbitrarily     *)
(* sparse (a statement, group, sub-group or line item missing or null),    *)
(* calculate_indices completes without raising.                            *)
(***************************************************************************)
C4_NeverRaises == pc # "raised"

(***************************************************************************)
(* Reading a line item of an input statement-year by the path it has in    *)
(* the source JSON; null when the path does not lead to a value.           *)
(***************************************************************************)
RECURSIVE At(_, _)
At(x, path) ==
    IF path = <<>> THEN x
    ELSE IF IsDict(x) /\ path[1] \in DOMAIN x.m THEN At(x.m[path[1]], Tail(path))
    ELSE None

\* the line item of statement-year j of a company; null when there is no
\* such year
Item(code, j, leaf) ==
    IF j \in DOMAIN InputYears(code) THEN At(InputYears(code)[j], LeafPath(leaf)) ELSE None

Present(x) == IsNum(x)
IsZero(x) == IsNum(x) /\ x.n = 0

GrowthNames == IndicatorNames("growth")

(***************************************************************************)
(* C2.  In the first panel of every series, whatever the statements hold,  *)
(* every growth indicator and the cash-balance delta are absent: never 0,  *)
(* never any other number.                                                 *)
(***************************************************************************)
C2_FirstPanelHasNoGrowthNorCashDelta ==
    \A code \in Codes :
        (HasOutput(code) /\ Len(Panels(code)) >= 1) =>
            LET first == Panels(code)[1]
            IN  /\ \A name \in GrowthNames : IsNone(Indicator(first, "growth", name))
                /\ IsNone(Indicator(first, "cashflow", "cash_delta"))

\* a series of one fully reported year: revenue, the incomes and the closing
\* cash balance are all there, and the first panel has its other indicators
C2_Witness ==
    /\ HasOutput("c1")
    /\ Len(Panels("c1")) = 1
    /\ \A leaf \in {"revenue", "op_income", "ord_income", "net_income", "end_cash"} :
          Present(Item("c1", 1, leaf)) /\ ~IsZero(Item("c1", 1, leaf))
    /\ IsNum(Indicator(Panels("c1")[1], "cashflow", "fcf"))
    /\ IsNone(Indicator(Panels("c1")[1], "growth", "revenue_growth"))
    /\ IsNone(Indicator(Panels("c1")[1], "cashflow", "cash_delta"))

\* the values the line items of the last statement-year of a company hold
LastYearItems(code) ==
    {Item(code, Len(InputYears(code)), leaf) : leaf \in Leaves}

\* the line items some formula of the engine divides by
DenominatorLeaves ==
    {"revenue", "cogs", "current_liabilities", "total_assets", "equity", "op_income"}

\* the values the denominator line items of the last statement-year hold
LastYearDenominators(code) ==
    {Item(code, Len(InputYears(code)), leaf) : leaf \in DenominatorLeaves}

\* r is the quotient a / b of two amounts
IsQuotient(r, a, b) ==
    IsNum(r) /\ r.d > 0 /\ r.n * a.d * b.n = a.n * b.d * r.d

(***************************************************************************)
(* C5.  _safe_div(a, b) is absent whenever b is 0 or absent, for every a   *)
(* (a = 0 and a absent included), and whenever a is absent; in every other *)
(* case it is the quotient a / b.  It never raises and always answers      *)
(* either absent or a finite number.  Checked for a every value a line     *)
(* item of a processed statement-year holds and b every value one of its   *)
(* denominator line items holds.                                           *)
(***************************************************************************)
C5_SafeDiv ==
    \A code \in Codes :
        (HasOutput(code) /\ pc = "done") =>
            LET items == LastYearItems(code)
                divisors == LastYearDenominators(code)
            IN  \A a \in items : \A b \in divisors :
                    LET r == _safe_div(a, b)
                    IN  IF IsNone(a) \/ IsNone(b) \/ IsZero(b)
                        THEN IsNone(r)
                        ELSE IsQuotient(r, a, b)

\* a processed year whose revenue and gross profit are both 0, next to line
\* items that are absent and others that hold amounts: 0 / 0 is absent and
\* so is the gross margin, while the operating margin's numerator is there
C5_Witness ==
    /\ HasOutput("c1") /\ pc = "done"
    /\ Len(Panels("c1")) = 1
    /\ IsZero(Item("c1", 1, "revenue"))
    /\ IsZero(Item("c1", 1, "gross"))
    /\ Present(Item("c1", 1, "op_income"))
    /\ IsNone(Indicator(Panels("c1")[1], "profitability", "gross_margin"))
    /\ IsNone(Indicator(Panels("c1")[1], "profitability", "op_margin"))

(***************************************************************************)
(* The denominator of every percentage and ratio indicator, read from the  *)
(* input line items.                                                       *)
(***************************************************************************)
\* the sum of the present ones of two amounts is 0, or none of them is
\* present: so is their two-point mean, which degrades to the one present
NoSumOrZero(x, y) ==
    \/ IsNone(x) /\ IsNone(y)
    \/ IsNone(x) /\ IsZero(y)
    \/ IsZero(x) /\ IsNone(y)
    \/ Present(x) /\ Present(y) /\ x.n * y.d + y.n * x.d = 0

AbsentOrZero(x) == IsNone(x) \/ IsZero(x)

RevenueRatios ==
    { <<"profitability", "gross_margin">>, <<"profitability", "cost_ratio">>,
      <<"profitability", "sga_ratio">>, <<"profitability", "op_margin">>,
      <<"profitability", "ord_margin">>, <<"profitability", "net_margin">>,
      <<"cost_structure", "personnel_ratio">>, <<"cost_structure", "dep_ratio">>,
      <<"cashflow", "op_cf_margin">>, <<"construction", "ar_days">> }

GrowthRatios ==
    { <<"growth", "revenue_growth">>, <<"growth", "op_growth">>,
      <<"growth", "ord_growth">>, <<"growth", "net_growth">> }

\* the line item a growth indicator compares between two years
GrowthLeaf(name) ==
    CASE name = "revenue_growth" -> "revenue"
      [] name = "op_growth" -> "op_income"
      [] name = "ord_growth" -> "ord_income"
      [] name = "net_growth" -> "net_income"

RatioIndicators ==
    RevenueRatios \cup GrowthRatios \cup
    { <<"construction", "ap_days">>,
      <<"safety", "current_ratio">>, <<"safety", "quick_ratio">>,
      <<"safety", "equity_ratio">>, <<"safety", "de_ratio">>,
      <<"efficiency", "asset_turnover">>, <<"efficiency", "ROA">>,
      <<"efficiency", "ROE">>, <<"cashflow", "op_cf_to_ebitda">> }

\* the denominator of ratio indicator ind in panel j is zero or absent
DenominatorDegenerate(code, j, ind) ==
    CASE ind \in RevenueRatios -> AbsentOrZero(Item(code, j, "revenue"))
      [] ind \in GrowthRatios -> AbsentOrZero(Item(code, j - 1, GrowthLeaf(ind[2])))
      [] ind[2] = "ap_days" -> AbsentOrZero(Item(code, j, "cogs"))
      [] ind[2] \in {"current_ratio", "quick_ratio"} ->
            AbsentOrZero(Item(code, j, "current_liabilities"))
      [] ind[2] = "equity_ratio" -> AbsentOrZero(Item(code, j, "total_assets"))
      [] ind[2] = "de_ratio" -> AbsentOrZero(Item(code, j, "equity"))
      [] ind[2] \in {"asset_turnover", "ROA"} ->
            NoSumOrZero(Item(code, j, "total_assets"), Item(code, j - 1, "total_assets"))
      [] ind[2] = "ROE" ->
            NoSumOrZero(Item(code, j, "equity"), Item(code, j - 1, "equity"))
      [] ind[2] = "op_cf_to_ebitda" ->
            NoSumOrZero(Item(code, j, "op_income"), Item(code, j, "sga_dep"))

(***************************************************************************)
(* C6.  Every percentage and ratio indicator of every category is absent   *)
(* whenever its denominator is zero or absent: the raw denominators        *)
(* (revenue, cost of sales, current liabilities, total assets, equity, the *)
(* previous-year value of a growth pair) and the derived ones (the         *)
(* two-point average of total assets or of equity, EBITDA).                *)
(***************************************************************************)
C6_DegenerateDenominatorGivesAbsent ==
    \A code \in Codes :
        HasOutput(code) =>
            \A j \in DOMAIN Panels(code) : \A ind \in RatioIndicators :
                DenominatorDegenerate(code, j, ind) =>
                    IsNone(Indicator(Panels(code)[j], ind[1], ind[2]))

\* total assets of 1 after total assets of -1: neither is 0 but their mean
\* is, and ROA is absent although the net income is there, while the equity
\* ratio, which divides by the total assets of the year alone, is a number
C6_Witness ==
    /\ HasOutput("c1")
    /\ Len(Panels("c1")) = 2
    /\ Item("c1", 2, "total_assets") = Int2Num(1)
    /\ Item("c1", 1, "total_assets") = Int2Num(-1)
    /\ Present(Item("c1", 2, "net_income"))
    /\ IsNone(Indicator(Panels("c1")[2], "efficiency", "ROA"))
    /\ IsNum(Indicator(Panels("c1")[2], "safety", "equity_ratio"))

(***************************************************************************)
(* Two companies that differ in one line item of one year.                 *)
(***************************************************************************)
\* every indicator of a panel, as <<category, name>>
AllIndicators ==
    UNION {{<<category, name>> : name \in IndicatorNames(category)} :
              category \in CategoryNames}

\* the <<year, line item>> cells the inputs of the two companies differ in
DifferingCells ==
    {c \in (1..Len(InputYears("c1"))) \X Leaves :
        Item("c1", c[1], c[2]) # Item("c2", c[1], c[2])}

\* both companies are done
PairDone == pc = "done" /\ HasOutput("c1") /\ HasOutput("c2")

\* the inputs of the two companies are equal in every field but the one of
\* cells, which is zero or absent for c1 and a non-zero amount for c2
IsDenominatorPair(cells) ==
    /\ Len(InputYears("c1")) = Len(InputYears("c2"))
    /\ Cardinality(cells) = 1
    /\ \A c \in cells :
          /\ AbsentOrZero(Item("c1", c[1], c[2]))
          /\ Present(Item("c2", c[1], c[2])) /\ ~IsZero(Item("c2", c[1], c[2]))

\* the indicators of the panel of the same year that divide by a line item
DividesDirectly(leaf) ==
    CASE leaf = "revenue" -> RevenueRatios
      [] leaf = "cogs" -> {<<"construction", "ap_days">>}
      [] leaf = "current_liabilities" ->
            {<<"safety", "current_ratio">>, <<"safety", "quick_ratio">>}
      [] leaf = "total_assets" -> {<<"safety", "equity_ratio">>}
      [] leaf = "equity" -> {<<"safety", "de_ratio">>}
      [] OTHER -> {}

\* the indicators of the panel of the same year whose denominator is
\* derived from a line item: a two-point average, or EBITDA
DividesDerived(leaf) ==
    CASE leaf = "total_assets" -> {<<"efficiency", "asset_turnover">>, <<"efficiency", "ROA">>}
      [] leaf = "equity" -> {<<"efficiency", "ROE">>}
      [] leaf = "op_income" -> {<<"cashflow", "op_cf_to_ebitda">>}
      [] OTHER -> {}

\* the indicators of the panel of the next year that divide by a line item:
\* the growth against it, and the averages with it
DividesNextYear(leaf) ==
    CASE leaf = "revenue" -> {<<"growth", "revenue_growth">>}
      [] leaf = "op_income" -> {<<"growth", "op_growth">>}
      [] leaf = "ord_income" -> {<<"growth", "ord_growth">>}
      [] leaf = "net_income" -> {<<"growth", "net_growth">>}
      [] leaf = "total_assets" -> {<<"efficiency", "asset_turnover">>, <<"efficiency", "ROA">>}
      [] leaf = "equity" -> {<<"efficiency", "ROE">>}
      [] OTHER -> {}

\* the indicators of the panel of the same year that read a line item as a
\* numerator or as an operand of a sum or a difference
ReadsAsOperand(leaf) ==
    CASE leaf = "revenue" -> {<<"efficiency", "asset_turnover">>, <<"growth", "revenue_growth">>}
      [] leaf = "cogs" -> {<<"profitability", "cost_ratio">>}
      [] leaf = "current_liabilities" -> {<<"construction", "net_wc">>}
      [] leaf = "total_assets" -> {}
      [] leaf = "equity" -> {<<"safety", "equity_ratio">>}
      [] leaf = "op_income" ->
            {<<"profitability", "op_margin">>, <<"profitability", "EBITDA">>,
             <<"growth", "op_growth">>}
      [] leaf = "ord_income" -> {<<"profitability", "ord_margin">>, <<"growth", "ord_growth">>}
      [] leaf = "net_income" ->
            {<<"profitability", "net_margin">>, <<"growth", "net_growth">>,
             <<"efficiency", "ROA">>, <<"efficiency", "ROE">>}

\* indicator ind of panel j has the same value for both companies
SameIndicator(j, ind) ==
    Indicator(Panels("c1")[j], ind[1], ind[2]) = Indicator(Panels("c2")[j], ind[1], ind[2])

(***************************************************************************)
(* C7.  As claimed: a zero or absent denominator makes absent exactly the  *)
(* indicators that divide by it and nothing else.  The indicators that     *)
(* divide by it, directly or through a derived denominator, in its own     *)
(* panel or in the next one, are set aside; every other indicator of the   *)
(* same panel and of every other panel has the value it has when the       *)
(* denominator is non-zero and all other fields are equal.                 *)
(***************************************************************************)
C7_OnlyDividingIndicatorsChange ==
    PairDone =>
        LET cells == DifferingCells
        IN  IsDenominatorPair(cells) =>
              LET year == (CHOOSE c \in cells : TRUE)[1]
                  leaf == (CHOOSE c \in cells : TRUE)[2]
                  dividing == DividesDirectly(leaf) \cup DividesDerived(leaf)
                  next == DividesNextYear(leaf)
              IN  /\ \A ind \in DividesDirectly(leaf) :
                        IsNone(Indicator(Panels("c1")[year], ind[1], ind[2]))
                  /\ \A j \in DOMAIN Panels("c1") : \A ind \in AllIndicators :
                        \/ j = year /\ ind \in dividing
                        \/ j = year + 1 /\ ind \in next
                        \/ SameIndicator(j, ind)

(***************************************************************************)
(* C7, amended.  A zero or absent denominator makes absent every indicator *)
(* of its panel that divides directly by it, and leaves unchanged every    *)
(* indicator that does not read it: apart from the indicators that divide  *)
(* by it (directly, through an average or EBITDA, or as the previous-year  *)
(* value in the next panel) and those that read it as a numerator or an    *)
(* operand, every indicator of every panel has the value it has when the   *)
(* denominator is non-zero and all other fields are equal; both series     *)
(* yield one panel per year.                                               *)
(***************************************************************************)
C7_OnlyIndicatorsReadingTheFieldChange ==
    PairDone =>
        LET cells == DifferingCells
        IN  IsDenominatorPair(cells) =>
              LET year == (CHOOSE c \in cells : TRUE)[1]
                  leaf == (CHOOSE c \in cells : TRUE)[2]
                  reading == DividesDirectly(leaf) \cup DividesDerived(leaf)
                                \cup ReadsAsOperand(leaf)
                  next == DividesNextYear(leaf)
              IN  /\ Len(Panels("c1")) = Len(InputYears("c1"))
                  /\ Len(Panels("c2")) = Len(Panels("c1"))
                  /\ \A ind \in DividesDirectly(leaf) :
                        IsNone(Indicator(Panels("c1")[year], ind[1], ind[2]))
                  /\ \A j \in DOMAIN Panels("c1") : \A ind \in AllIndicators :
                        \/ j = year /\ ind \in reading
                        \/ j = year + 1 /\ ind \in next
                        \/ SameIndicator(j, ind)

\* revenue 0 against revenue 1 in the first of two fully reported years: the
\* gross margin is absent for the first company and a number for the second,
\* EBITDA and ROA are the same numbers for both, and the asset turnover,
\* whose numerator the revenue is, is 0 for the first and not for the second
C7_Witness ==
    /\ PairDone
    /\ IsDenominatorPair(DifferingCells)
    /\ Len(Panels("c1")) = 2
    /\ DifferingCells = {<<1, "revenue">>}
    /\ IsZero(Item("c1", 1, "revenue"))
    /\ IsNone(Indicator(Panels("c1")[1], "profitability", "gross_margin"))
    /\ IsNum(Indicator(Panels("c2")[1], "profitability", "gross_margin"))
    /\ IsNum(Indicator(Panels("c1")[1], "profitability", "EBITDA"))
    /\ SameIndicator(1, <<"profitability", "EBITDA">>)
    /\ IsNum(Indicator(Panels("c1")[1], "efficiency", "ROA"))
    /\ SameIndicator(1, <<"efficiency", "ROA">>)
    /\ IsZero(Indicator(Panels("c1")[1], "efficiency", "asset_turnover"))
    /\ ~SameIndicator(1, <<"efficiency", "asset_turnover">>)

(***************************************************************************)
(* Rounding.  g is the amount xn / xd rounded to 2 decimals: a multiple of *)
(* 1/100 no further than 0.005 from it.  Where xn / xd lies exactly        *)
(* between two multiples, both are accepted: which of the two round()      *)
(* answers depends on the binary representation of the quotient.           *)
(***************************************************************************)
IsRounded(g, xn, xd) ==
    /\ IsNum(g)
    /\ 100 % g.d = 0
    /\ 200 * Abs(g.n * xd - xn * g.d) <= g.d * Abs(xd)

(***************************************************************************)
(* C8.  For a panel with a previous year, each of the four growth          *)
(* indicators equals (current - previous) / |previous| x 100 rounded to 2  *)
(* decimals when current and previous are present and previous is not 0,   *)
(* and is absent when current is absent, previous is absent, or previous   *)
(* is 0; a present growth value is never negative when current > previous  *)
(* and never positive when current < previous, also when previous is       *)
(* negative.                                                               *)
(***************************************************************************)
C8_GrowthFormula ==
    \A code \in Codes :
        HasOutput(code) =>
            \A j \in DOMAIN Panels(code) : \A name \in GrowthNames :
                j > 1 =>
                    LET curr == Item(code, j, GrowthLeaf(name))
                        prev == Item(code, j - 1, GrowthLeaf(name))
                        g == Indicator(Panels(code)[j], "growth", name)
                    IN  IF IsNone(curr) \/ AbsentOrZero(prev)
                        THEN IsNone(g)
                        ELSE /\ IsRounded(g, (curr.n - prev.n) * 100, Abs(prev.n))
                             /\ curr.n > prev.n => g.n >= 0
                             /\ curr.n < prev.n => g.n <= 0

\* operating income 1 after operating income -2: the growth is 150.00
C8_Witness ==
    /\ HasOutput("c1")
    /\ Len(Panels("c1")) = 2
    /\ Item("c1", 1, "op_income") = Int2Num(-2)
    /\ Item("c1", 2, "op_income") = Int2Num(1)
    /\ Indicator(Panels("c1")[2], "growth", "op_growth") = Int2Num(150)

(***************************************************************************)
(* C9.  Asset turnover, ROA and ROE divide by the two-point mean of the    *)
(* current and the previous year's total assets (equity for ROE) when both *)
(* are present; when only one of the two is present (first year, or either *)
(* balance absent) they divide by that single value; they are absent only  *)
(* when both balances are absent, the resulting denominator is 0, or the   *)
(* numerator is absent.                                                    *)
(***************************************************************************)
EfficiencyRatios ==
    { [name |-> "asset_turnover", num |-> "revenue", bal |-> "total_assets", scale |-> 1],
      [name |-> "ROA", num |-> "net_income", bal |-> "total_assets", scale |-> 100],
      [name |-> "ROE", num |-> "net_income", bal |-> "equity", scale |-> 100] }

C9_EfficiencyUsesDegradingAverage ==
    \A code \in Codes :
        HasOutput(code) =>
            \A j \in DOMAIN Panels(code) : \A e \in EfficiencyRatios :
                LET num == Item(code, j, e.num)
                    cur == Item(code, j, e.bal)
                    prv == Item(code, j - 1, e.bal)
                    g == Indicator(Panels(code)[j], "efficiency", e.name)
                IN  IF IsNone(num) \/ NoSumOrZero(cur, prv)
                    THEN IsNone(g)
                    ELSE IF Present(cur) /\ Present(prv)
                    THEN IsRounded(g, num.n * e.scale * 2, cur.n + prv.n)
                    ELSE IF Present(cur)
                    THEN IsRounded(g, num.n * e.scale, cur.n)
                    ELSE IsRounded(g, num.n * e.scale, prv.n)

\* the second of two years reports no total assets and the first does: ROA
\* of the second year is the net income over the first year's total assets
C9_Witness ==
    /\ HasOutput("c1")
    /\ Len(Panels("c1")) = 2
    /\ IsNone(Item("c1", 2, "total_assets"))
    /\ Present(Item("c1", 1, "total_assets"))
    /\ Present(Item("c1", 2, "net_income"))
    /\ IsNum(Indicator(Panels("c1")[2], "efficiency", "ROA"))
    /\ IsRounded(Indicator(Panels("c1")[2], "efficiency", "ROA"),
                 Item("c1", 2, "net_income").n * 100, Item("c1", 1, "total_assets").n)

(***************************************************************************)
(* C10.  EBITDA (operating income + depreciation) and free cash flow       *)
(* (operating CF + investing CF) equal the sum of their present operands:  *)
(* the full sum when both are present, the single present operand when     *)
(* exactly one is present, and absent only when both are absent.           *)
(***************************************************************************)
AdditiveIndicators ==
    { [category |-> "profitability", name |-> "EBITDA", x |-> "op_income", y |-> "sga_dep"],
      [category |-> "cashflow", name |-> "fcf", x |-> "op_cf", y |-> "inv_cf"] }

C10_AdditiveIndicators ==
    \A code \in Codes :
        HasOutput(code) =>
            \A j \in DOMAIN Panels(code) : \A e \in AdditiveIndicators :
                LET x == Item(code, j, e.x)
                    y == Item(code, j, e.y)
                    g == Indicator(Panels(code)[j], e.category, e.name)
                IN  IF IsNone(x) /\ IsNone(y) THEN IsNone(g)
                    ELSE IF IsNone(y) THEN g = x
                    ELSE IF IsNone(x) THEN g = y
                    ELSE IsNum(g) /\ g.n * x.d * y.d = (x.n * y.d + y.n * x.d) * g.d

\* a year that reports an operating income and no depreciation: EBITDA is
\* the operating income
C10_Witness ==
    /\ HasOutput("c1")
    /\ Len(Panels("c1")) = 1
    /\ Present(Item("c1", 1, "op_income"))
    /\ IsNone(Item("c1", 1, "sga_dep"))
    /\ Indicator(Panels("c1")[1], "profitability", "EBITDA") = Item("c1", 1, "op_income")
    /\ Present(Item("c1", 1, "op_cf")) /\ Present(Item("c1", 1, "inv_cf"))
    /\ IsNum(Indicator(Panels("c1")[1], "cashflow", "fcf"))

(***************************************************************************)
(* The numeric fields every indicator reads: <<0, line item>> in the       *)
(* statement-year of the panel, <<1, line item>> in the one before it.     *)
(***************************************************************************)
Curr(leaves) == {<<0, leaf>> : leaf \in leaves}
Prev(leaves) == {<<1, leaf>> : leaf \in leaves}

Reads(ind) ==
    CASE ind[2] = "gross_margin" -> Curr({"gross", "revenue"})
      [] ind[2] = "cost_ratio" -> Curr({"cogs", "revenue"})
      [] ind[2] = "sga_ratio" -> Curr({"sga", "revenue"})
      [] ind[2] = "op_margin" -> Curr({"op_income", "revenue"})
      [] ind[2] = "ord_margin" -> Curr({"ord_income", "revenue"})
      [] ind[2] = "net_margin" -> Curr({"net_income", "revenue"})
      [] ind[2] = "EBITDA" -> Curr({"op_income", "sga_dep"})
      [] ind[2] \in GrowthNames -> Curr({GrowthLeaf(ind[2])}) \cup Prev({GrowthLeaf(ind[2])})
      [] ind[2] = "personnel_ratio" -> Curr({"sga_personnel", "revenue"})
      [] ind[2] = "dep_ratio" -> Curr({"sga_dep", "revenue"})
      [] ind[2] = "value_added" -> Curr({"gross", "sga_personnel"})
      [] ind[2] = "asset_turnover" ->
            Curr({"revenue", "total_assets"}) \cup Prev({"total_assets"})
      [] ind[2] = "ROA" -> Curr({"net_income", "total_assets"}) \cup Prev({"total_assets"})
      [] ind[2] = "ROE" -> Curr({"net_income", "equity"}) \cup Prev({"equity"})
      [] ind[2] = "current_ratio" -> Curr({"current_assets", "current_liabilities"})
      [] ind[2] = "quick_ratio" ->
            Curr({"ca_cash", "ca_ar", "ca_constr_ar", "current_liabilities"})
      [] ind[2] = "equity_ratio" -> Curr({"equity", "total_assets"})
      [] ind[2] = "de_ratio" ->
            Curr({"cl_short_debt", "cl_short_lt_debt", "fl_long_debt", "equity"})
      [] ind[2] = "op_cf_margin" -> Curr({"op_cf", "revenue"})
      [] ind[2] = "fcf" -> Curr({"op_cf", "inv_cf"})
      [] ind[2] = "op_cf_to_ebitda" -> Curr({"op_cf", "op_income", "sga_dep"})
      [] ind[2] = "cash_delta" -> Curr({"end_cash"}) \cup Prev({"end_cash"})
      [] ind[2] = "construction_wc" ->
            Curr({"ca_constr_ar", "ca_wip", "cl_constr_ap", "cl_adv_received"})
      [] ind[2] = "net_wc" ->
            Curr({"current_assets", "ca_cash", "current_liabilities", "cl_short_debt"})
      [] ind[2] = "ar_days" ->
            Curr({"ca_ar", "ca_constr_ar", "revenue"}) \cup Prev({"ca_ar", "ca_constr_ar"})
      [] ind[2] = "ap_days" -> Curr({"cl_constr_ap", "cogs"}) \cup Prev({"cl_constr_ap"})

(***************************************************************************)
(* C11.  For any statement-year (and previous year) in which every numeric *)
(* field an indicator reads is absent, that indicator is absent: no        *)
(* indicator of any category evaluates to 0 or to any other number from    *)
(* all-absent inputs.                                                      *)
(***************************************************************************)
C11_AllAbsentInputsGiveAbsent ==
    \A code \in Codes :
        HasOutput(code) =>
            \A j \in DOMAIN Panels(code) : \A ind \in AllIndicators :
                (\A r \in Reads(ind) : IsNone(Item(code, j - r[1], r[2]))) =>
                    IsNone(Indicator(Panels(code)[j], ind[1], ind[2]))

\* the second of two fully reported years but for the closing cash balance,
\* which neither year reports: the cash delta is absent and the free cash
\* flow, whose operands are there, is a number
C11_Witness ==
    /\ HasOutput("c1")
    /\ Len(Panels("c1")) = 2
    /\ IsNone(Item("c1", 2, "end_cash"))
    /\ IsNone(Item("c1", 1, "end_cash"))
    /\ Present(Item("c1", 2, "op_cf"))
    /\ IsNone(Indicator(Panels("c1")[2], "cashflow", "cash_delta"))
    /\ IsNum(Indicator(Panels("c1")[2], "cashflow", "fcf"))

(***************************************************************************)
(* The statement field accessors (_売上高 .. _純資産) applied to a          *)
(* statement-year: each to the statement _get_pl / _get_bs hands it.       *)
(***************************************************************************)
AccessorLeaves ==
    {"revenue", "cogs", "gross", "sga", "sga_dep", "sga_personnel",
     "total_assets", "current_assets", "ca_cash", "ca_ar", "ca_constr_ar", "ca_wip",
     "ca_inventory", "current_liabilities", "cl_short_debt", "cl_short_lt_debt",
     "cl_trade_ap", "cl_constr_ap", "cl_adv_received", "fl_long_debt", "equity"}

Accessed(year_data, leaf) ==
    CASE leaf = "revenue" -> _revenue(_get_pl(year_data))
      [] leaf = "cogs" -> _cogs(_get_pl(year_data))
      [] leaf = "gross" -> _gross(_get_pl(year_data))
      [] leaf = "sga" -> _sga(_get_pl(year_data))
      [] leaf \in {"sga_dep", "sga_personnel"} -> _sga_breakdown(_get_pl(year_data), leaf)
      [] leaf = "total_assets" -> _total_assets(_get_bs(year_data))
      [] leaf = "current_assets" -> _current_assets(_get_bs(year_data))
      [] leaf \in {"ca_cash", "ca_ar", "ca_constr_ar", "ca_wip", "ca_inventory"} ->
            _current_assets_breakdown(_get_bs(year_data), leaf)
      [] leaf = "current_liabilities" -> _current_liabilities(_get_bs(year_data))
      [] leaf \in {"cl_short_debt", "cl_short_lt_debt", "cl_trade_ap", "cl_constr_ap",
                   "cl_adv_received"} ->
            _current_liabilities_breakdown(_get_bs(year_data), leaf)
      [] leaf = "fl_long_debt" -> _fixed_liabilities_breakdown(_get_bs(year_data), leaf)
      [] leaf = "equity" -> _equity(_get_bs(year_data))

\* the statement is a mapping, or the statement-year has no such key: the
\* accessor is handed a mapping
StatementGiven(year_data, statement) ==
    statement \in DOMAIN year_data.m => IsDict(year_data.m[statement])

(***************************************************************************)
(* C12.  Each statement field accessor returns the stored value when every *)
(* level of its path (group, sub-group, breakdown map, line item) is       *)
(* present, returns absent when any level of the path is missing or null,  *)
(* never raises, and never returns 0 for a missing value.  Stated for the  *)
(* statement the accessor is handed being a mapping (an empty one when the *)
(* statement-year has no such statement).                                  *)
(***************************************************************************)
C12_AccessorsFollowThePath ==
    \A c \in DOMAIN fs_map :
        LET years == IF IsDict(fs_map[c].data) /\ "fin" \in DOMAIN fs_map[c].data.m
                     THEN fs_map[c].data.m.fin.s ELSE <<>>
        IN  \A j \in DOMAIN years :
                (StatementGiven(years[j], "PL") /\ StatementGiven(years[j], "BS")) =>
                    \A leaf \in AccessorLeaves :
                        Accessed(years[j], leaf) = At(years[j], LeafPath(leaf))

\* a processed year whose current-assets sub-group is there and null: the
\* accessors of its total and of its items answer absent, so the current
\* and quick ratios are absent, while the total assets next to it are read
C12_Witness ==
    /\ HasOutput("c1")
    /\ Len(Panels("c1")) = 1
    /\ IsDict(At(InputYears("c1")[1], <<"BS", "assets">>))
    /\ "current_assets" \in DOMAIN InputYears("c1")[1].m.BS.m.assets.m
    /\ IsNone(InputYears("c1")[1].m.BS.m.assets.m.current_assets)
    /\ IsNone(Accessed(InputYears("c1")[1], "current_assets"))
    /\ IsNone(Accessed(InputYears("c1")[1], "ca_cash"))
    /\ IsNum(Accessed(InputYears("c1")[1], "total_assets"))
    /\ IsNone(Indicator(Panels("c1")[1], "safety", "current_ratio"))
    /\ IsNum(Indicator(Panels("c1")[1], "safety", "equity_ratio"))

(***************************************************************************)
(* C13.  Recomputing calculate_indices on identical company data yields an *)
(* identical output, whatever was computed before for the same or for      *)
(* other companies: two codes of one run that hold the same data get the   *)
(* same result.                                                            *)
(***************************************************************************)
C13_SameDataSameOutput ==
    \A a, b \in Codes :
        (HasOutput(a) /\ HasOutput(b) /\ DataOf(a) = DataOf(b)) =>
            all_results[a] = all_results[b]

\* three companies: the first and the last computed hold the same two
\* years, the one computed between them holds another series
C13_Witness ==
    /\ pc = "done"
    /\ Len(fs_map) = 3
    /\ fs_map[1].data = fs_map[3].data
    /\ fs_map[2].data # fs_map[1].data
    /\ Len(Panels(fs_map[1].code)) = 2
    /\ Len(Panels(fs_map[2].code)) >= 1
    /\ all_results[fs_map[1].code] = all_results[fs_map[3].code]

Frac(n, d) == [t |-> "num", n |-> n, d |-> d]

\* the sum of the present ones of the amounts of a sequence
RECURSIVE XSum(_)
XSum(xs) ==
    IF xs = <<>> THEN None
    ELSE LET rest == XSum(Tail(xs))
             x == Head(xs)
         IN  IF IsNone(x) THEN rest
             ELSE IF IsNone(rest) THEN Frac(x.n, x.d)
             ELSE Frac(x.n * rest.d + rest.n * x.d, x.d * rest.d)

XSub(a, b) ==
    IF IsNone(a) \/ IsNone(b) THEN None ELSE Frac(a.n * b.d - b.n * a.d, a.d * b.d)

XDiv(a, b) ==
    IF IsNone(a) \/ IsNone(b) THEN None
    ELSE IF b.n = 0 THEN None
    ELSE Frac(a.n * b.d, a.d * b.n)

XTimes(a, c) == IF IsNone(a) THEN None ELSE Frac(a.n * c, a.d)

XAbs(a) == IF IsNone(a) THEN None ELSE Frac(Abs(a.n), Abs(a.d))

\* the two-point mean, or the one of the two that is present
XMean(a, b) ==
    IF IsNone(a) THEN b
    ELSE IF IsNone(b) THEN a
    ELSE Frac(a.n * b.d + b.n * a.d, 2 * a.d * b.d)

\* indicators rounded to 2 decimals after a multiplication by 100
PercentIndicators ==
    (RevenueRatios \ {<<"construction", "ar_days">>}) \cup GrowthRatios \cup
    { <<"efficiency", "ROA">>, <<"efficiency", "ROE">>,
      <<"safety", "current_ratio">>, <<"safety", "quick_ratio">>,
      <<"safety", "equity_ratio">> }

\* indicators rounded to 2 decimals as they are
PlainRatioIndicators ==
    { <<"efficiency", "asset_turnover">>, <<"safety", "de_ratio">>,
      <<"cashflow", "op_cf_to_ebitda">>,
      <<"construction", "ar_days">>, <<"construction", "ap_days">> }

\* indicators that are amounts: sums and differences, never rounded
AmountIndicators ==
    { <<"profitability", "EBITDA">>, <<"cost_structure", "value_added">>,
      <<"cashflow", "fcf">>, <<"cashflow", "cash_delta">>,
      <<"construction", "construction_wc">>, <<"construction", "net_wc">> }

\* the unrounded value of indicator ind of panel j, before the x 100 of a
\* percentage
Unrounded(code, j, ind) ==
    LET C(leaf) == Item(code, j, leaf)
        P(leaf) == Item(code, j - 1, leaf)
        name == ind[2]
    IN  CASE name = "gross_margin" -> XDiv(C("gross"), C("revenue"))
          [] name = "cost_ratio" -> XDiv(C("cogs"), C("revenue"))
          [] name = "sga_ratio" -> XDiv(C("sga"), C("revenue"))
          [] name = "op_margin" -> XDiv(C("op_income"), C("revenue"))
          [] name = "ord_margin" -> XDiv(C("ord_income"), C("revenue"))
          [] name = "net_margin" -> XDiv(C("net_income"), C("revenue"))
          [] name = "EBITDA" -> XSum(<<C("op_income"), C("sga_dep")>>)
          [] name \in GrowthNames ->
                IF j = 1 THEN None
                ELSE XDiv(XSub(C(GrowthLeaf(name)), P(GrowthLeaf(name))),
                          XAbs(P(GrowthLeaf(name))))
          [] name = "personnel_ratio" -> XDiv(C("sga_personnel"), C("revenue"))
          [] name = "dep_ratio" -> XDiv(C("sga_dep"), C("revenue"))
          [] name = "value_added" -> XSub(C("gross"), C("sga_personnel"))
          [] name = "asset_turnover" ->
                XDiv(C("revenue"), XMean(C("total_assets"), P("total_assets")))
          [] name = "ROA" ->
                XDiv(C("net_income"), XMean(C("total_assets"), P("total_assets")))
          [] name = "ROE" -> XDiv(C("net_income"), XMean(C("equity"), P("equity")))
          [] name = "current_ratio" -> XDiv(C("current_assets"), C("current_liabilities"))
          [] name = "quick_ratio" ->
                XDiv(XSum(<<C("ca_cash"), C("ca_ar"), C("ca_constr_ar")>>),
                     C("current_liabilities"))
          [] name = "equity_ratio" -> XDiv(C("equity"), C("total_assets"))
          [] name = "de_ratio" ->
                XDiv(XSum(<<C("cl_short_debt"), C("cl_short_lt_debt"), C("fl_long_debt")>>),
                     C("equity"))
          [] name = "op_cf_margin" -> XDiv(C("op_cf"), C("revenue"))
          [] name = "fcf" -> XSum(<<C("op_cf"), C("inv_cf")>>)
          [] name = "op_cf_to_ebitda" ->
                XDiv(C("op_cf"), XSum(<<C("op_income"), C("sga_dep")>>))
          [] name = "cash_delta" -> XSub(C("end_cash"), P("end_cash"))
          [] name = "construction_wc" ->
                XSub(XSum(<<C("ca_constr_ar"), C("ca_wip")>>),
                     XSum(<<C("cl_constr_ap"), C("cl_adv_received")>>))
          [] name = "net_wc" ->
                XSub(XSub(C("current_assets"), C("ca_cash")),
                     XSub(C("current_liabilities"), C("cl_short_debt")))
          [] name = "ar_days" ->
                XTimes(XDiv(XMean(XSum(<<C("ca_ar"), C("ca_constr_ar")>>),
                                  XSum(<<P("ca_ar"), P("ca_constr_ar")>>)),
                            C("revenue")), 365)
          [] name = "ap_days" ->
                XTimes(XDiv(XMean(C("cl_constr_ap"), P("cl_constr_ap")), C("cogs")), 365)

\* g is the value x, or both are absent
IsExactly(g, x) ==
    IF IsNone(x) THEN IsNone(g) ELSE IsNum(g) /\ g.n * x.d = x.n * g.d

\* g is the value x rounded to 2 decimals, or both are absent
IsRoundingOf(g, x) ==
    IF IsNone(x) THEN IsNone(g) ELSE IsRounded(g, x.n, x.d)

(***************************************************************************)
(* C15.  Rounding happens once, as the last step of an indicator: every    *)
(* percentage indicator equals its unrounded ratio x 100 rounded to 2      *)
(* decimals, every ratio indicator (asset turnover, D/E, operating-CF /    *)
(* EBITDA, turnover days) equals its unrounded value rounded to 2          *)
(* decimals, and the amount indicators (EBITDA, value added, free cash     *)
(* flow, cash delta, construction and net working capital) equal the exact *)
(* sum or difference of their operands; no rounded value is an operand of  *)
(* another term.                                                           *)
(***************************************************************************)
C15_RoundedOnceAtTheEnd ==
    \A code \in Codes :
        HasOutput(code) =>
            \A j \in DOMAIN Panels(code) : \A ind \in AllIndicators :
                LET g == Indicator(Panels(code)[j], ind[1], ind[2])
                    x == Unrounded(code, j, ind)
                IN  IF ind \in PercentIndicators THEN IsRoundingOf(g, XTimes(x, 100))
                    ELSE IF ind \in PlainRatioIndicators THEN IsRoundingOf(g, x)
                    ELSE IsExactly(g, x)

\* the second of two fully reported years: the receivables over the revenue
\* are not a whole number of hundredths, the turnover days are their 365-fold
\* rounded once, and the net working capital is a whole amount
C15_Witness ==
    /\ HasOutput("c1")
    /\ Len(Panels("c1")) = 2
    /\ LET q == Unrounded("c1", 2, <<"construction", "ar_days">>)
           g == Indicator(Panels("c1")[2], "construction", "ar_days")
       IN  /\ IsNum(q) /\ q.d > 0
           /\ (q.n * 100) % (q.d * 365) # 0
           /\ IsNum(g) /\ IsRounded(g, q.n, q.d)
    /\ IsNum(Indicator(Panels("c1")[2], "construction", "net_wc"))
    /\ Indicator(Panels("c1")[2], "construction", "net_wc").d = 1
    /\ IsNum(Indicator(Panels("c1")[2], "growth", "revenue_growth"))


\* the cell of a column of a row
CellOf(row, col) == IF col \in DOMAIN row.m THEN row.m[col] ELSE NoColumn

\* a statement cell that reports nothing or zero: the column missing, the
\* cell cut off or empty, a text that is no number, a text of the number 0
ZeroOrUnreported ==
    {NoColumn, None, Str(""), Str("x"), Str("0"), Str("-0"), Str("0.0")}

\* the <<row, column>> statement cells in which the row of c1 and the row of
\* c2 of the same year differ
RowDifferences ==
    {c \in {r \in DOMAIN csv.rows : r % 2 = 1} \X Leaves :
        CellOf(csv.rows[c[1]], c[2]) # CellOf(csv.rows[c[1] + 1], c[2])}

\* the file is loaded: both companies are in fs_map
Loaded == csv # NoCsv /\ pc # "load"

\* every value at the end of a key path of the statements of a statement-year
LoadedFields(year_data) ==
    {At(year_data, p) : p \in {q \in Paths(year_data) : q[1] \in {"PL", "BS", "CF"}}}

(***************************************************************************)
(* C16.  Through the loader a statement cell holding zero cannot be told   *)
(* from an unreported one.  No field of a loaded statement is the number   *)
(* 0; and when the rows of two companies differ only in statement cells    *)
(* that are each 0, empty, missing or no number, the two companies load to *)
(* the same statement-years and get the same index panels.                 *)
(***************************************************************************)
C16_LoaderZeroIsUnreported ==
    Loaded =>
        /\ \A code \in {"c1", "c2"} : \A j \in DOMAIN InputYears(code) :
              \A x \in LoadedFields(InputYears(code)[j]) : ~IsZero(x)
        /\ LET cells == RowDifferences
           IN  (\A c \in cells :
                    /\ CellOf(csv.rows[c[1]], c[2]) \in ZeroOrUnreported
                    /\ CellOf(csv.rows[c[1] + 1], c[2]) \in ZeroOrUnreported)
               => /\ InputYears("c1") = InputYears("c2")
                  /\ PairDone => Panels("c1") = Panels("c2")

\* both companies are done; one reports the text 0.0 where the other has no
\* such column, and the field loads as None for both
C16_Witness ==
    /\ Loaded
    /\ PairDone
    /\ \E c \in RowDifferences :
          /\ CellOf(csv.rows[c[1]], c[2]) = Str("0.0")
          /\ CellOf(csv.rows[c[1] + 1], c[2]) = NoColumn
          /\ IsNone(Item("c1", (c[1] + 1) \div 2, c[2]))
          /\ IsNone(Item("c2", (c[1] + 1) \div 2, c[2]))
    /\ Panels("c1") = Panels("c2")
    /\ Len(Panels("c1")) = MaxYears

QuickRatio == <<"safety", "quick_ratio">>

\* the fields the quick ratio is computed from
QuickRatioFields == {"ca_cash", "ca_ar", "ca_constr_ar", "current_liabilities"}

(***************************************************************************)
(* C17.  The quick ratio of a panel is (the sum of the present ones of     *)
(* cash, notes and accounts receivable, construction receivables) over the *)
(* current liabilities, x 100, rounded to 2 decimals.  Whatever else of    *)
(* the balance sheet changes, inventories included, it stays as it is: two *)
(* companies that differ in a single balance-sheet field other than those  *)
(* three items and the current-liabilities total have the same quick ratio *)
(* in every panel.                                                         *)
(***************************************************************************)
C17_QuickRatio ==
    /\ \A code \in {"c1", "c2"} :
          HasOutput(code) =>
              \A j \in DOMAIN Panels(code) :
                  IsRoundingOf(
                      Indicator(Panels(code)[j], "safety", "quick_ratio"),
                      XTimes(XDiv(XSum(<<Item(code, j, "ca_cash"),
                                         Item(code, j, "ca_ar"),
                                         Item(code, j, "ca_constr_ar")>>),
                                  Item(code, j, "current_liabilities")), 100))
    /\ PairDone =>
          LET cells == DifferingCells
          IN  \A j \in DOMAIN Panels("c1") :
                  (\A c \in cells : c[1] # j \/ c[2] \notin QuickRatioFields)
                      => SameIndicator(j, QuickRatio)

\* the inventories of the last year differ between the two companies and
\* the quick ratio of that year is the same number for both
C17_Witness ==
    /\ PairDone
    /\ DifferingCells = {<<Len(InputYears("c1")), "ca_inventory">>}
    /\ Present(Item("c1", Len(InputYears("c1")), "ca_inventory"))
    /\ Present(Item("c2", Len(InputYears("c1")), "ca_inventory"))
    /\ Present(Indicator(Panels("c1")[Len(Panels("c1"))], "safety", "quick_ratio"))
    /\ SameIndicator(Len(Panels("c1")), QuickRatio)

DebtEquityRatio == <<"safety", "de_ratio">>

\* the fields the debt-to-equity ratio is computed from
DebtEquityFields == {"cl_short_debt", "cl_short_lt_debt", "fl_long_debt", "equity"}

(***************************************************************************)
(* C18.  The debt-to-equity ratio of a panel is (the sum of the present    *)
(* ones of short-term borrowings, current portion of long-term debt,       *)
(* long-term debt) over the equity, rounded to 2 decimals; it is absent    *)
(* when the three debt items are all absent and when the equity is zero or *)
(* absent.  Trade payables and every other liability item leave it as it   *)
(* is: two companies that differ in a single balance-sheet field other     *)
(* than the three debt items and the equity have the same ratio in every   *)
(* panel.                                                                  *)
(***************************************************************************)
C18_DebtEquityRatio ==
    /\ \A code \in {"c1", "c2"} :
          HasOutput(code) =>
              \A j \in DOMAIN Panels(code) :
                  LET de == Indicator(Panels(code)[j], "safety", "de_ratio")
                      debts == <<Item(code, j, "cl_short_debt"),
                                 Item(code, j, "cl_short_lt_debt"),
                                 Item(code, j, "fl_long_debt")>>
                      equity == Item(code, j, "equity")
                  IN  /\ IsRoundingOf(de, XDiv(XSum(debts), equity))
                      /\ (\A d \in DOMAIN debts : IsNone(debts[d])) => IsNone(de)
                      /\ (IsNone(equity) \/ IsZero(equity)) => IsNone(de)
    /\ PairDone =>
          LET cells == DifferingCells
          IN  \A j \in DOMAIN Panels("c1") :
                  (\A c \in cells : c[1] # j \/ c[2] \notin DebtEquityFields)
                      => SameIndicator(j, DebtEquityRatio)

\* the trade payables of the last year differ between the two companies and
\* the debt-to-equity ratio of that year is the same number for both
C18_Witness ==
    /\ PairDone
    /\ DifferingCells = {<<Len(InputYears("c1")), "cl_trade_ap">>}
    /\ Present(Item("c1", Len(InputYears("c1")), "cl_trade_ap"))
    /\ Present(Item("c2", Len(InputYears("c1")), "cl_trade_ap"))
    /\ Present(Indicator(Panels("c1")[Len(Panels("c1"))], "safety", "de_ratio"))
    /\ SameIndicator(Len(Panels("c1")), DebtEquityRatio)

\* two statement-years equal in everything but the value of the YEAR label
SameButLabel(a, b) ==
    \/ a = b
    \/ /\ IsDict(a) /\ IsDict(b)
       /\ "YEAR" \in DOMAIN a.m /\ "YEAR" \in DOMAIN b.m
       /\ SetAt(a, <<"YEAR">>, None) = SetAt(b, <<"YEAR">>, None)

(***************************************************************************)
(* C19.  Panel i is a function of the elements i and i-1 of the series and *)
(* of nothing else.  Two series that agree on element i, and on element    *)
(* i-1 but for the value of its YEAR label, have the same panel i,         *)
(* whatever their other elements and labels are; and the previous year of  *)
(* the cross-year formulas is the element just before in the list, in      *)
(* whatever order the labels are: the revenue growth and the change of the *)
(* cash balance of panel i are computed from the elements i and i-1.       *)
(***************************************************************************)
C19_PanelReadsAdjacentElementsOnly ==
    /\ PairDone =>
          \A j \in DOMAIN Panels("c1") :
              (/\ InputYears("c1")[j] = InputYears("c2")[j]
               /\ j > 1 => SameButLabel(InputYears("c1")[j - 1], InputYears("c2")[j - 1]))
                  => Panels("c1")[j] = Panels("c2")[j]
    /\ \A code \in {"c1", "c2"} :
          HasOutput(code) =>
              \A j \in DOMAIN Panels(code) :
                  j > 1 =>
                      /\ IsRoundingOf(
                            Indicator(Panels(code)[j], "growth", "revenue_growth"),
                            XTimes(XDiv(XSub(Item(code, j, "revenue"),
                                             Item(code, j - 1, "revenue")),
                                        XAbs(Item(code, j - 1, "revenue"))), 100))
                      /\ IsExactly(
                            Indicator(Panels(code)[j], "cashflow", "cash_delta"),
                            XSub(Item(code, j, "end_cash"), Item(code, j - 1, "end_cash")))

\* series of three years with the labels in descending order that differ in
\* the revenue of the first element: the second panels differ, the third
\* panels are the same and have a revenue growth
C19_Witness ==
    /\ PairDone
    /\ Len(Panels("c1")) = 3
    /\ LabelOf(InputYears("c1")[1]).n > LabelOf(InputYears("c1")[3]).n
    /\ Item("c1", 1, "revenue") # Item("c2", 1, "revenue")
    /\ Panels("c1")[2] # Panels("c2")[2]
    /\ Panels("c1")[3] = Panels("c2")[3]
    /\ Present(Indicator(Panels("c1")[3], "growth", "revenue_growth"))

(***************************************************************************)
(* C20.  As claimed: in every panel but the first of a series the growth   *)
(* category is a mapping of the four growth indicators, each possibly      *)
(* absent, whatever the element before it holds, an element with no        *)
(* statements at all included.  It does not hold: after an element that is *)
(* the empty record the growth category is null.                           *)
(***************************************************************************)
C20_GrowthIsAMappingAfterTheFirstPanel ==
    \A code \in Codes :
        HasOutput(code) =>
            \A j \in DOMAIN Panels(code) :
                j > 1 => IsFullCategory(Panels(code)[j], "growth")

(***************************************************************************)
(* C21.  calculate_indices leaves its input as it is: no step of main or   *)
(* of calculate_indices changes fs_map, so the company info and every      *)
(* statement-year, with all their groups, totals and line items, hold      *)
(* after the call what they held before it, and a later call sees the same *)
(* input.                                                                  *)
(***************************************************************************)
C21_InputUnchanged == [][fs_map' = fs_map]_vars

\* the call has returned for a series of two years whose first element has
\* no income statement: the key is still missing from the input
C21_Witness ==
    /\ pc = "done"
    /\ HasOutput("c1")
    /\ Len(InputYears("c1")) = 2
    /\ Len(Panels("c1")) = 2
    /\ IsDict(InputYears("c1")[1])
    /\ "PL" \notin DOMAIN InputYears("c1")[1].m
    /\ "BS" \in DOMAIN InputYears("c1")[1].m

(***************************************************************************)
(* C22.  The two strict differences are absent as soon as one operand is   *)
(* absent.  Value added is absent when the gross profit or the personnel   *)
(* cost is absent and is gross profit - personnel cost otherwise; the      *)
(* simplified net working capital is absent when any of current assets,    *)
(* cash, current liabilities, short-term borrowings is absent and is       *)
(* (current assets - cash) - (current liabilities - short-term borrowings) *)
(* otherwise.  Neither is rounded.                                         *)
(***************************************************************************)
C22_StrictDifferences ==
    \A code \in Codes :
        HasOutput(code) =>
            \A j \in DOMAIN Panels(code) :
                LET gross == Item(code, j, "gross")
                    personnel == Item(code, j, "sga_personnel")
                    ca == Item(code, j, "current_assets")
                    cash == Item(code, j, "ca_cash")
                    cl == Item(code, j, "current_liabilities")
                    short_debt == Item(code, j, "cl_short_debt")
                    va == Indicator(Panels(code)[j], "cost_structure", "value_added")
                    wc == Indicator(Panels(code)[j], "construction", "net_wc")
                IN  /\ IF IsNone(gross) \/ IsNone(personnel) THEN IsNone(va)
                       ELSE va = Int2Num(gross.n - personnel.n)
                    /\ IF IsNone(ca) \/ IsNone(cash) \/ IsNone(cl) \/ IsNone(short_debt)
                       THEN IsNone(wc)
                       ELSE wc = Int2Num((ca.n - cash.n) - (cl.n - short_debt.n))

\* a year that reports everything but its short-term borrowings: the net
\* working capital is absent, the value added is a number
C22_Witness ==
    /\ HasOutput("c1")
    /\ LET j == Len(Panels("c1"))
       IN  /\ j >= 1
           /\ Present(Item("c1", j, "current_assets")) /\ Present(Item("c1", j, "ca_cash"))
           /\ Present(Item("c1", j, "current_liabilities"))
           /\ IsNone(Item("c1", j, "cl_short_debt"))
           /\ IsNone(Indicator(Panels("c1")[j], "construction", "net_wc"))
           /\ IsNum(Indicator(Panels("c1")[j], "cost_structure", "value_added"))

(***************************************************************************)
(* C23.  The construction working capital is (construction receivables +   *)
(* work in progress) - (construction payables + advances received); inside *)
(* each bracket an absent item adds nothing.  It is absent exactly when    *)
(* both items of the asset bracket are absent or both items of the         *)
(* liability bracket are absent, and is a number in every other case.      *)
(***************************************************************************)
C23_ConstructionWorkingCapital ==
    \A code \in Codes :
        HasOutput(code) =>
            \A j \in DOMAIN Panels(code) :
                LET constr_ar == Item(code, j, "ca_constr_ar")
                    wip == Item(code, j, "ca_wip")
                    constr_ap == Item(code, j, "cl_constr_ap")
                    adv_received == Item(code, j, "cl_adv_received")
                    Amount(x) == IF IsNone(x) THEN 0 ELSE x.n
                    wc == Indicator(Panels(code)[j], "construction", "construction_wc")
                IN  /\ IsNone(wc) <=> \/ IsNone(constr_ar) /\ IsNone(wip)
                                      \/ IsNone(constr_ap) /\ IsNone(adv_received)
                    /\ ~IsNone(wc) =>
                          wc = Int2Num((Amount(constr_ar) + Amount(wip))
                                       - (Amount(constr_ap) + Amount(adv_received)))

\* a year with construction receivables and advances received and neither
\* work in progress nor construction payables: the working capital is their
\* difference
C23_Witness ==
    /\ HasOutput("c1")
    /\ LET j == Len(Panels("c1"))
       IN  /\ j >= 1
           /\ Present(Item("c1", j, "ca_constr_ar")) /\ IsNone(Item("c1", j, "ca_wip"))
           /\ IsNone(Item("c1", j, "cl_constr_ap")) /\ Present(Item("c1", j, "cl_adv_received"))
           /\ Indicator(Panels("c1")[j], "construction", "construction_wc")
                 = Int2Num(Item("c1", j, "ca_constr_ar").n - Item("c1", j, "cl_adv_received").n)

\* the cash-flow indicators of a single year
SingleYearCashflow == {"op_cf_margin", "fcf", "op_cf_to_ebitda"}

(***************************************************************************)
(* C24.  In every panel but the first the cash delta is the ending cash    *)
(* balance of its year minus the ending cash balance of the year before it *)
(* in the list, unrounded, when both are there, and is absent when either  *)
(* is absent.  The three other cash-flow indicators do not look at the     *)
(* year before: two series that agree on element i have the same operating *)
(* CF margin, free cash flow and operating CF / EBITDA in panel i,         *)
(* whatever their elements i-1 are.                                        *)
(***************************************************************************)
C24_CashDelta ==
    /\ \A code \in {"c1", "c2"} :
          HasOutput(code) =>
              \A j \in DOMAIN Panels(code) :
                  j > 1 =>
                      LET end_cash == Item(code, j, "end_cash")
                          begin_cash == Item(code, j - 1, "end_cash")
                          delta == Indicator(Panels(code)[j], "cashflow", "cash_delta")
                      IN  IF IsNone(end_cash) \/ IsNone(begin_cash) THEN IsNone(delta)
                          ELSE delta = Int2Num(end_cash.n - begin_cash.n)
    /\ PairDone =>
          \A j \in DOMAIN Panels("c1") :
              InputYears("c1")[j] = InputYears("c2")[j] =>
                  \A name \in SingleYearCashflow : SameIndicator(j, <<"cashflow", name>>)

\* two series that differ in the ending cash balance of the first year, a
\* number in both: the cash deltas of the second year differ, its three other
\* cash-flow indicators are the same numbers
C24_Witness ==
    /\ PairDone
    /\ Len(Panels("c1")) >= 2
    /\ InputYears("c1")[2] = InputYears("c2")[2]
    /\ Present(Item("c1", 1, "end_cash")) /\ Present(Item("c2", 1, "end_cash"))
    /\ Item("c1", 1, "end_cash") # Item("c2", 1, "end_cash")
    /\ IsNum(Indicator(Panels("c1")[2], "cashflow", "cash_delta"))
    /\ ~SameIndicator(2, <<"cashflow", "cash_delta">>)
    /\ \A name \in SingleYearCashflow :
          /\ IsNum(Indicator(Panels("c1")[2], "cashflow", name))
          /\ SameIndicator(2, <<"cashflow", name>>)

(***************************************************************************)
(* C25.  Receivable days are (average receivables balance / revenue) x 365 *)
(* and payable days are (average construction payables / cost of sales) x  *)
(* 365, both rounded to 2 decimals.  The receivables balance of a year is  *)
(* the sum of the present ones of notes and accounts receivable and        *)
(* construction receivables; the average is the two-point mean of the      *)
(* balances of the year and of the year before when both are there, and    *)
(* the single one that is there otherwise, the first year included.  Each  *)
(* is absent only when the balance is absent in both years or the          *)
(* denominator is zero or absent.                                          *)
(***************************************************************************)
C25_TurnoverDays ==
    \A code \in Codes :
        HasOutput(code) =>
            \A j \in DOMAIN Panels(code) :
                LET ar_curr == XSum(<<Item(code, j, "ca_ar"), Item(code, j, "ca_constr_ar")>>)
                    ar_prev == XSum(<<Item(code, j - 1, "ca_ar"),
                                      Item(code, j - 1, "ca_constr_ar")>>)
                    ap_curr == Item(code, j, "cl_constr_ap")
                    ap_prev == Item(code, j - 1, "cl_constr_ap")
                    revenue == Item(code, j, "revenue")
                    cogs == Item(code, j, "cogs")
                    ar_days == Indicator(Panels(code)[j], "construction", "ar_days")
                    ap_days == Indicator(Panels(code)[j], "construction", "ap_days")
                IN  /\ IsNone(ar_days) <=>
                          \/ IsNone(ar_curr) /\ IsNone(ar_prev)
                          \/ AbsentOrZero(revenue)
                    /\ IsNone(ap_days) <=>
                          \/ IsNone(ap_curr) /\ IsNone(ap_prev)
                          \/ AbsentOrZero(cogs)
                    /\ IsRoundingOf(ar_days,
                                    XTimes(XDiv(XMean(ar_curr, ar_prev), revenue), 365))
                    /\ IsRoundingOf(ap_days,
                                    XTimes(XDiv(XMean(ap_curr, ap_prev), cogs), 365))

\* the second year reports no receivables at all and the first year does:
\* the receivable days of the second year are those of the first year's
\* balance alone
C25_Witness ==
    /\ HasOutput("c1")
    /\ Len(Panels("c1")) = 2
    /\ IsNone(Item("c1", 2, "ca_ar")) /\ IsNone(Item("c1", 2, "ca_constr_ar"))
    /\ Present(Item("c1", 1, "ca_ar")) /\ Item("c1", 1, "ca_ar").n > 0
    /\ IsNone(Item("c1", 1, "ca_constr_ar"))
    /\ Present(Item("c1", 2, "revenue")) /\ Item("c1", 2, "revenue").n > 0
    /\ IsRounded(Indicator(Panels("c1")[2], "construction", "ar_days"),
                 Item("c1", 1, "ca_ar").n * 365, Item("c1", 2, "revenue").n)

(***************************************************************************)
(* C26.  In every panel the EBITDA that divides the operating CF in the    *)
(* cash-flow category is the EBITDA the profitability category reports:    *)
(* operating CF / EBITDA is the operating CF over the reported EBITDA      *)
(* rounded to 2 decimals, and it is absent whenever the reported EBITDA is *)
(* absent or 0.                                                            *)
(***************************************************************************)
C26_OneEBITDA ==
    \A code \in Codes :
        HasOutput(code) =>
            \A j \in DOMAIN Panels(code) :
                LET ebitda == Indicator(Panels(code)[j], "profitability", "EBITDA")
                    ratio == Indicator(Panels(code)[j], "cashflow", "op_cf_to_ebitda")
                    op_cf == Item(code, j, "op_cf")
                IN  /\ AbsentOrZero(ebitda) => IsNone(ratio)
                    /\ IsRoundingOf(ratio, XDiv(op_cf, ebitda))

\* a year with an operating income, a depreciation and an operating CF: the
\* reported EBITDA is their sum, not the operating income, and the ratio is
\* the operating CF over it
C26_Witness ==
    /\ HasOutput("c1")
    /\ LET j == Len(Panels("c1"))
       IN  /\ j >= 1
           /\ Present(Item("c1", j, "op_income"))
           /\ Present(Item("c1", j, "sga_dep")) /\ ~IsZero(Item("c1", j, "sga_dep"))
           /\ Present(Item("c1", j, "op_cf")) /\ ~IsZero(Item("c1", j, "op_cf"))
           /\ IsNum(Indicator(Panels("c1")[j], "profitability", "EBITDA"))
           /\ Indicator(Panels("c1")[j], "profitability", "EBITDA") # Item("c1", j, "op_income")
           /\ IsNum(Indicator(Panels("c1")[j], "cashflow", "op_cf_to_ebitda"))

\* the positions of the rows of the file that carry a code and pass the
\* filters: the code filter when a code is given, the year filter when a
\* year other than 0 is given
RowsOf(code) ==
    SelectSeq([r \in 1..Len(csv.rows) |-> r],
              LAMBDA r :
                  /\ csv.rows[r].m.code = Str(code)
                  /\ IsNone(csv.company_code) \/ csv.rows[r].m.code = csv.company_code
                  /\ \/ IsNone(csv.year) \/ csv.year = Int2Num(0)
                     \/ csv.rows[r].m.YEAR = Str(IntText(csv.year.n)))

\* the codes of the file that have such a row, in the order they first appear
RECURSIVE FirstAppearances(_)
FirstAppearances(n) ==
    IF n = 0 THEN <<>>
    ELSE LET before == FirstAppearances(n - 1)
             code == csv.rows[n].m.code.v
         IN  IF n \in {RowsOf(code)[j] : j \in DOMAIN RowsOf(code)}
                /\ \A j \in DOMAIN before : before[j] # code
             THEN Append(before, code)
             ELSE before

\* the statement-year of a row
EntryOf(row) ==
    Dict([YEAR |-> _parse_number(row.m.YEAR),
          PL |-> _build_pl(row), BS |-> _build_bs(row), CF |-> _build_cf(row)])

(***************************************************************************)
(* C27.  load_financial_data appends one statement-year per accepted row   *)
(* to the list of the company of that row, in the order of the rows.  The  *)
(* companies are those with an accepted row, in the order of their first   *)
(* one; the list of each is exactly the sequence of its accepted rows,     *)
(* neither sorted by YEAR nor merged where a year repeats; and the info of *)
(* a company is the one of its first accepted row, whatever later rows     *)
(* hold.                                                                   *)
(***************************************************************************)
C27_RowsInSourceOrder ==
    (csv # NoCsv /\ pc # "load") =>
        /\ [j \in DOMAIN fs_map |-> fs_map[j].code] = FirstAppearances(Len(csv.rows))
        /\ \A j \in DOMAIN fs_map :
              LET code == fs_map[j].code
                  rows == RowsOf(code)
              IN  /\ Len(InputYears(code)) = Len(rows)
                  /\ \A e \in DOMAIN rows : InputYears(code)[e] = EntryOf(csv.rows[rows[e]])
                  /\ fs_map[j].data.m.info =
                        Dict([code |-> Str(code), location |-> csv.rows[rows[1]].m.location])

\* c1 has rows for 2021, 2020 and 2021 again, read without a filter: three
\* statement-years in that order, and the location of the first row
C27_Witness ==
    /\ pc = "done"
    /\ Len(csv.rows) = 3
    /\ IsNone(csv.company_code) /\ IsNone(csv.year)
    /\ \E j \in DOMAIN fs_map : fs_map[j].code = "c1"
    /\ Len(InputYears("c1")) = 3
    /\ LabelOf(InputYears("c1")[1]) = Int2Num(2021)
    /\ LabelOf(InputYears("c1")[2]) = Int2Num(2020)
    /\ LabelOf(InputYears("c1")[3]) = Int2Num(2021)
    /\ InputYears("c1")[1] # InputYears("c1")[3]
    /\ DataOf("c1").m.info.m.location = Str("tokyo")
    /\ Len(Panels("c1")) = 3

(***************************************************************************)
(* run_pipeline.py: the seven stages, each a subprocess, run one after the *)
(* other from --start-stage on, with a confirmation between two stages.    *)
(* pipeline.stage is the stage block main is at, pipeline.at the place in  *)
(* it; pipeline.started lists the stages whose subprocess was started and  *)
(* pipeline.returncode the exit code of each; pipeline.exit is the exit    *)
(* status of run_pipeline.py itself once it is over.                       *)
(***************************************************************************)
StageCount == 7

\* exit codes of a subprocess: success, failures, killed by a signal
ReturnCodes == {0, 1, 2, -9}

\* what the user types at the prompt, and its .strip().lower()
Answers == {"", "y", "Y", " yes ", "YES", "n", "no", "N", "ok"}

StripLower(answer) ==
    CASE answer \in {"y", "Y"} -> "y"
      [] answer \in {" yes ", "YES"} -> "yes"
      [] answer \in {"n", "N"} -> "n"
      [] OTHER -> answer

\* the variables of the other programs in a run of this one
Idle ==
    /\ csv = NoCsv
    /\ fs_map = <<>>
    /\ all_results = <<>>
    /\ pc = "none"
    /\ k = 1
    /\ i = 0
    /\ results = <<>>

\* the arguments are parsed: any start stage, with or without --yes, with a
\* company code given or found in the file name, or without one
InitPipeline ==
    /\ \E start_stage \in 1..StageCount, yes \in BOOLEAN, code \in {"", "12044"} :
          pipeline = [status |-> "args", start_stage |-> start_stage, yes |-> yes,
                      code |-> code, stage |-> 1, at |-> "stage",
                      started |-> <<>>, returncode |-> <<>>, declined |-> 0,
                      exit |-> None]
    /\ extraction = NoExtraction
    /\ Idle

\* main up to the first stage: sys.exit(1) without a company code
main_code ==
    /\ pipeline.status = "args"
    /\ pipeline' = IF pipeline.code = ""
                   THEN [pipeline EXCEPT !.status = "exited", !.exit = Int2Num(1)]
                   ELSE [pipeline EXCEPT !.status = "running"]
    /\ UNCHANGED <<extraction, csv, fs_map, all_results, pc, k, i, results>>

\* run going on after a subprocess that failed
run_ignores_returncode ==
    /\ pipeline.status = "running" /\ pipeline.at = "stage"
    /\ pipeline.stage = StageCount \/ pipeline.start_stage <= pipeline.stage
    /\ \E returncode \in ReturnCodes :
          LET ran == [pipeline EXCEPT !.started = Append(@, pipeline.stage),
                                      !.returncode = Append(@, returncode)]
          IN  pipeline' =
                  IF pipeline.stage = StageCount
                  THEN [ran EXCEPT !.status = "finished", !.exit = Int2Num(0)]
                  ELSE [ran EXCEPT !.at = "confirm"]
    /\ UNCHANGED <<extraction, csv, fs_map, all_results, pc, k, i, results>>

\* if start_stage <= stage: run(cmd, label).  The subprocess runs to its end;
\* a return code other than 0 ends the pipeline with sys.exit(1).  Stage 7
\* has no test of start_stage.  After stage 7 main runs to its end.
run ==
    /\ pipeline.status = "running" /\ pipeline.at = "stage"
    /\ pipeline.stage = StageCount \/ pipeline.start_stage <= pipeline.stage
    /\ \E returncode \in ReturnCodes :
          LET ran == [pipeline EXCEPT !.started = Append(@, pipeline.stage),
                                      !.returncode = Append(@, returncode)]
          IN  pipeline' =
                  IF returncode # 0
                  THEN [ran EXCEPT !.status = "exited", !.exit = Int2Num(1)]
                  ELSE IF pipeline.stage = StageCount
                  THEN [ran EXCEPT !.status = "finished", !.exit = Int2Num(0)]
                  ELSE [ran EXCEPT !.at = "confirm"]
    /\ UNCHANGED <<extraction, csv, fs_map, all_results, pc, k, i, results>>

\* skip passing over the next stage as well
skip_two_stages ==
    /\ pipeline.status = "running" /\ pipeline.at = "stage"
    /\ pipeline.stage < StageCount /\ pipeline.start_stage > pipeline.stage
    /\ pipeline' = [pipeline EXCEPT !.stage = IF @ + 2 <= StageCount THEN @ + 2 ELSE @ + 1]
    /\ UNCHANGED <<extraction, csv, fs_map, all_results, pc, k, i, results>>

\* else: print [skip]
skip ==
    /\ pipeline.status = "running" /\ pipeline.at = "stage"
    /\ pipeline.stage < StageCount /\ pipeline.start_stage > pipeline.stage
    /\ pipeline' = [pipeline EXCEPT !.stage = @ + 1]
    /\ UNCHANGED <<extraction, csv, fs_map, all_results, pc, k, i, results>>

\* if not confirm(label, args.yes): return
confirm ==
    /\ pipeline.status = "running" /\ pipeline.at = "confirm"
    /\ \E answer \in Answers :
          pipeline' =
              IF pipeline.yes \/ StripLower(answer) \in {"", "y", "yes"}
              THEN [pipeline EXCEPT !.stage = @ + 1, !.at = "stage"]
              ELSE [pipeline EXCEPT !.status = "declined", !.declined = pipeline.stage,
                                    !.exit = Int2Num(0)]
    /\ UNCHANGED <<extraction, csv, fs_map, all_results, pc, k, i, results>>

NextPipeline == main_code \/ run \/ skip \/ confirm

\* the runs of run_pipeline.py; a subprocess that was started ends and the
\* prompt is answered
SpecPipeline == InitPipeline /\ [][NextPipeline]_vars /\ WF_vars(NextPipeline)

Over == pipeline.status \in {"exited", "declined", "finished"}

(***************************************************************************)
(* C28.  When the subprocess of a stage ends with a return code other than *)
(* 0 the pipeline is over with exit status 1, and when the user declines a *)
(* confirmation it is over as well: that stage is the last one ever        *)
(* started.                                                                *)
(***************************************************************************)
C28_FailureOrRefusalStopsThePipeline ==
    /\ [](\A j \in DOMAIN pipeline.started :
             pipeline.returncode[j] # 0 =>
                 /\ j = Len(pipeline.started)
                 /\ pipeline.status = "exited"
                 /\ pipeline.exit = Int2Num(1))
    /\ [](pipeline.status = "declined" =>
             /\ pipeline.started # <<>>
             /\ pipeline.declined = pipeline.started[Len(pipeline.started)])
    /\ [][Over => pipeline'.started = pipeline.started]_vars

\* stage 3 ended with return code 2 after two stages that succeeded
C28_Witness ==
    /\ pipeline.status = "exited"
    /\ pipeline.started = <<1, 2, 3>>
    /\ pipeline.returncode = <<0, 0, 2>>
    /\ pipeline.exit = Int2Num(1)

(***************************************************************************)
(* C29.  The stages run in increasing order, each at most once: the j-th   *)
(* stage started is stage start-stage + j - 1, so none below start-stage   *)
(* runs, and a stage after the first one is started only after the stage   *)
(* before it ended with return code 0.  A run ends; and a run in which     *)
(* every stage succeeded and no confirmation was declined ends having run  *)
(* all the stages from start-stage to 7.                                   *)
(***************************************************************************)
C29_StagesInOrder ==
    /\ [](\A j \in DOMAIN pipeline.started :
             /\ pipeline.started[j] = pipeline.start_stage + j - 1
             /\ j > 1 => pipeline.returncode[j - 1] = 0)
    /\ []((/\ Over
           /\ pipeline.code # ""
           /\ pipeline.status # "declined"
           /\ \A j \in DOMAIN pipeline.returncode : pipeline.returncode[j] = 0)
          => /\ pipeline.status = "finished"
             /\ pipeline.started =
                   [j \in 1..(StageCount + 1 - pipeline.start_stage) |->
                       pipeline.start_stage + j - 1])
    /\ <>Over

\* a run from stage 4 without --yes that went through to the end
C29_Witness ==
    /\ pipeline.status = "finished"
    /\ pipeline.start_stage = 4
    /\ ~pipeline.yes
    /\ pipeline.started = <<4, 5, 6, 7>>
    /\ pipeline.returncode = <<0, 0, 0, 0>>

(***************************************************************************)
(* report-extraction/main.py: the loop over the PDF files (lines 78-146).  *)
(* extraction.results is the list results, extraction.loaded what it was   *)
(* when it was read from the output file, extraction.processed_map the map *)
(* of the file names recorded as processed to their positions,             *)
(* extraction.pdf_files the base names of the files to process,            *)
(* extraction.f the position of the loop in them and extraction.log what   *)
(* the logger reported of each file the loop went past.                    *)
(***************************************************************************)
FileNames == {"a.pdf", "b.pdf", "c.pdf"}

MaxEntries == 2

MaxFiles == 2

\* a page as load_pages returns it and as tag_pages returns it
TextPage(n) == Dict([page |-> Int2Num(n), text |-> Str("x")])

TaggedPage(n) == Dict([page |-> Int2Num(n), sections |-> List(<<>>)])

\* the entries a results file can hold for a file name: tagged pages, tagged
\* pages of an earlier and longer run, untagged pages, no page, no pages key
EntriesOf(filename) ==
    { Dict([filename |-> Str(filename), pages |-> List(<<TaggedPage(1)>>)]),
      Dict([filename |-> Str(filename), pages |-> List(<<TaggedPage(1), TaggedPage(2)>>)]),
      Dict([filename |-> Str(filename), pages |-> List(<<TextPage(1)>>)]),
      Dict([filename |-> Str(filename), pages |-> List(<<>>)]),
      Dict([filename |-> Str(filename)]) }

\* pages and "sections" in pages[0]
IsProcessed(item) ==
    LET pages == PyGetDefault(item, "pages", List(<<>>))
    IN  Truthy(pages) /\ "sections" \in DOMAIN pages.s[1].m

\* the first position of a file name in the list, 0 for none: next((i for
\* i, item in enumerate(results) if item["filename"] == filename), -1)
ExistingIndex(list, filename) ==
    LET found == {j \in DOMAIN list : list[j].m.filename = Str(filename)}
    IN  IF found = {} THEN 0 ELSE CHOOSE j \in found : \A j2 \in found : j <= j2

\* the results file holds any entries, a file name possibly more than once;
\* the PDF files are those of one directory, each name once
InitExtraction ==
    /\ \E n \in 0..MaxEntries, nf \in 1..MaxFiles :
          \E names \in [1..n -> FileNames], files \in [1..nf -> FileNames] :
              \E loaded \in [1..n -> UNION {EntriesOf(name) : name \in FileNames}] :
                  /\ \A j \in 1..n : loaded[j] \in EntriesOf(names[j])
                  /\ \A a, b \in 1..nf : a # b => files[a] # files[b]
                  /\ extraction = [status |-> "loaded", pdf_files |-> files,
                                   loaded |-> loaded, results |-> loaded,
                                   processed_map |-> <<>>, f |-> 1, log |-> <<>>]
    /\ pipeline = NoPipeline
    /\ Idle

\* for i, item in enumerate(results): processed_map[item["filename"]] = i
\* (a later position of the same name overwrites an earlier one)
build_processed_map ==
    /\ extraction.status = "loaded"
    /\ LET list == extraction.results
           names == {list[j].m.filename.v : j \in {e \in DOMAIN list : IsProcessed(list[e])}}
       IN  extraction' =
               [extraction EXCEPT
                   !.status = "loop",
                   !.processed_map =
                       [name \in names |->
                           CHOOSE j \in DOMAIN list :
                               /\ IsProcessed(list[j]) /\ list[j].m.filename = Str(name)
                               /\ \A j2 \in DOMAIN list :
                                     (IsProcessed(list[j2]) /\ list[j2].m.filename = Str(name))
                                         => j2 <= j]]
    /\ UNCHANGED <<pipeline, csv, fs_map, all_results, pc, k, i, results>>

\* process_file with the summary of a file always appended
process_file_always_appends ==
    /\ extraction.status = "loop"
    /\ extraction.f <= Len(extraction.pdf_files)
    /\ LET filename == extraction.pdf_files[extraction.f]
           next(message) == [extraction EXCEPT !.f = @ + 1, !.log = Append(@, message)]
       IN  \E pages \in {Raise("Exception"), List(<<>>), List(<<TextPage(1)>>),
                         List(<<TextPage(1), TextPage(2)>>)},
              tagging \in {"returns", "raises"} :
               extraction' =
                   IF filename \in DOMAIN extraction.processed_map THEN next("Skipping")
                   ELSE IF IsRaise(pages) THEN next("Failed to extract text")
                   ELSE IF ~Truthy(pages) THEN next("Extracted pages are empty")
                   ELSE IF tagging = "raises" THEN [extraction EXCEPT !.status = "raised"]
                   ELSE LET file_summary ==
                                Dict([filename |-> Str(filename),
                                      pages |-> List([p \in DOMAIN pages.s |-> TaggedPage(p)])])
                        IN  [next("Tagged") EXCEPT !.results = Append(@, file_summary)]
    /\ UNCHANGED <<pipeline, csv, fs_map, all_results, pc, k, i, results>>

\* one iteration of for file_path in pdf_files.  load_pages raises, returns
\* no page or returns the pages; tag_pages returns one tagged page per page
\* or raises (the API client is built outside any try), uncaught.  Writing the output file
\* changes nothing of results, whether it succeeds or not.
process_file ==
    /\ extraction.status = "loop"
    /\ extraction.f <= Len(extraction.pdf_files)
    /\ LET filename == extraction.pdf_files[extraction.f]
           next(message) == [extraction EXCEPT !.f = @ + 1, !.log = Append(@, message)]
       IN  \E pages \in {Raise("Exception"), List(<<>>), List(<<TextPage(1)>>),
                         List(<<TextPage(1), TextPage(2)>>)},
              tagging \in {"returns", "raises"} :
               extraction' =
                   IF filename \in DOMAIN extraction.processed_map THEN next("Skipping")
                   ELSE IF IsRaise(pages) THEN next("Failed to extract text")
                   ELSE IF ~Truthy(pages) THEN next("Extracted pages are empty")
                   ELSE IF tagging = "raises" THEN [extraction EXCEPT !.status = "raised"]
                   ELSE LET file_summary ==
                                Dict([filename |-> Str(filename),
                                      pages |-> List([p \in DOMAIN pages.s |-> TaggedPage(p)])])
                            existing_index == ExistingIndex(extraction.results, filename)
                        IN  IF existing_index # 0
                            THEN [next("Tagged") EXCEPT !.results[existing_index] = file_summary]
                            ELSE [next("Tagged") EXCEPT !.results = Append(@, file_summary)]
    /\ UNCHANGED <<pipeline, csv, fs_map, all_results, pc, k, i, results>>

\* the loop is over
extraction_done ==
    /\ extraction.status = "loop"
    /\ extraction.f > Len(extraction.pdf_files)
    /\ extraction' = [extraction EXCEPT !.status = "done"]
    /\ UNCHANGED <<pipeline, csv, fs_map, all_results, pc, k, i, results>>

NextExtraction == build_processed_map \/ process_file \/ extraction_done

\* the runs of the loop over the PDF files
SpecExtraction == InitExtraction /\ [][NextExtraction]_vars

\* no file name has two entries in the list
OneEntryPerFilename(list) ==
    \A a, b \in DOMAIN list : list[a].m.filename = list[b].m.filename => a = b

\* the positions of the files the loop went past
Passed == DOMAIN extraction.log

\* the position in the loaded results of the entry of a file name, 0 for none
LoadedIndex(filename) == ExistingIndex(extraction.loaded, filename)

\* the entry is a summary the loop wrote for the file name
IsSummaryOf(item, filename) ==
    /\ item.m.filename = Str(filename)
    /\ IsProcessed(item)
    /\ \A p \in DOMAIN item.m.pages.s : item.m.pages.s[p] = TaggedPage(p)

\* what the loop does to results whatever a passed file's extraction gave:
\* the loaded entries keep their positions and file names, a processed one
\* is skipped and unchanged, and only files without an entry are appended
KeepsPositions ==
    LET loaded == extraction.loaded
        list == extraction.results
        files == extraction.pdf_files
    IN  /\ OneEntryPerFilename(list)
        /\ Len(list) >= Len(loaded)
        /\ \A j \in DOMAIN loaded : list[j].m.filename = loaded[j].m.filename
        /\ \A j \in DOMAIN loaded : IsProcessed(loaded[j]) => list[j] = loaded[j]
        /\ \A a \in Passed :
              (LoadedIndex(files[a]) # 0 /\ IsProcessed(loaded[LoadedIndex(files[a])]))
                  => extraction.log[a] = "Skipping"
        /\ \A j \in DOMAIN list :
              j > Len(loaded)
                  => \E a \in Passed : /\ LoadedIndex(files[a]) = 0
                                       /\ extraction.log[a] = "Tagged"
                                       /\ IsSummaryOf(list[j], files[a])
        /\ \A a \in Passed :
              (LoadedIndex(files[a]) = 0 /\ extraction.log[a] # "Tagged")
                  => \A j \in DOMAIN list : list[j].m.filename # Str(files[a])

\* C30 as stated: with at most one entry per file name loaded, results
\* keep at most one entry per file name, a processed file is skipped and its
\* entry unchanged, only a file without an entry is appended, and every passed
\* file with an unprocessed entry has that entry replaced at its position
C30_UnprocessedEntryAlwaysReplaced ==
    OneEntryPerFilename(extraction.loaded)
        => /\ KeepsPositions
           /\ \A a \in Passed :
                 LET j == LoadedIndex(extraction.pdf_files[a])
                 IN  (j # 0 /\ ~IsProcessed(extraction.loaded[j]))
                         => IsSummaryOf(extraction.results[j], extraction.pdf_files[a])

\* C30 amended: as above, but a passed file with an unprocessed entry has
\* that entry replaced at its position when its text extraction gave at least
\* one page, and left as it was when the extraction failed or gave no page
C30_OneEntryPerFilename ==
    OneEntryPerFilename(extraction.loaded)
        => /\ KeepsPositions
           /\ \A a \in Passed :
                 LET j == LoadedIndex(extraction.pdf_files[a])
                 IN  (j # 0 /\ ~IsProcessed(extraction.loaded[j]))
                         => IF extraction.log[a] = "Tagged"
                            THEN IsSummaryOf(extraction.results[j], extraction.pdf_files[a])
                            ELSE /\ extraction.log[a] \in {"Failed to extract text",
                                                            "Extracted pages are empty"}
                                 /\ extraction.results[j] = extraction.loaded[j]

\* a run over a.pdf and c.pdf that replaced the unprocessed entry of a.pdf
\* at position 1, left the entry of b.pdf alone and appended c.pdf
C30_Witness ==
    /\ extraction.status = "done"
    /\ Len(extraction.loaded) = 2
    /\ OneEntryPerFilename(extraction.loaded)
    /\ extraction.loaded[1].m.filename = Str("a.pdf") /\ ~IsProcessed(extraction.loaded[1])
    /\ extraction.pdf_files = <<"a.pdf", "c.pdf">>
    /\ extraction.log = <<"Tagged", "Tagged">>
    /\ Len(extraction.results) = 3
    /\ IsSummaryOf(extraction.results[1], "a.pdf")
    /\ extraction.results[2] = extraction.loaded[2]
    /\ IsSummaryOf(extraction.results[3], "c.pdf")
=============================================================================
